---- MODULE Spec2Model ----
(***************************************************************************)
(* Section-local transfer handling of an Elder of safe_vault:              *)
(*   - KeySection (node/elder_duties/key_section/mod.rs): construction of  *)
(*     the AT2 replica shared by Payments and Transfers, dispatch of       *)
(*     duties, and elders_changed (churn);                                 *)
(*   - SectionFunds (node/elder_duties/rewards/section_funds.rs): the      *)
(*     reward coordinator driving the transfer actor;                      *)
(*   - MapStorage (node/elder_duties/data_section/metadata/                *)
(*     map_storage.rs): reads and writes of Map chunks.                    *)
(* The replica/actor internals (ReplicaManager, TransferActor) and the     *)
(* section split are not part of the sources at hand; they follow the      *)
(* design document (sections 4.3 to 4.5) and are marked as such.           *)
(***************************************************************************)
EXTENDS Integers, Sequences, FiniteSets, TLC

\* ------------------------------------------------------------------ bounds
MaxSeq == 1          \* highest sequence number a sender may reach
MaxIndex == 1        \* highest section-key index the membership layer reaches
MaxAmount == 2       \* amounts range over 1..MaxAmount
NumElders == 3       \* key shares of a Section Key Set
Threshold == 2       \* shares needed to reconstruct a signature
NumUsers == 2        \* public keys of clients (origins of requests)
NumMsgIds == 2       \* message ids of requests
NumCmds == 2         \* commands a group decision may carry

GenesisBalance == 100

Users == 1..NumUsers
MsgIds == 1..NumMsgIds

Elders == 1..NumElders
\* Account ids are bit strings; a section prefix is a leading bit string.
Accounts == { <<0, 1>>, <<1, 0>> }
RootPrefix == << >>
ChildPrefixes == { <<0>>, <<1>> }
Prefixes == { RootPrefix } \cup ChildPrefixes
\* The two owners of a replica handle inside KeySection.
Handles == { "payments", "transfers" }
\* Heap cells that can hold a ReplicaManager (what an Rc points to).
ObjIds == { 1, 2 }

\* Option<T>: None is the empty tuple, Some(x) the one-element tuple.
None == << >>
Some(x) == << x >>
NoProof == None

Keys == Accounts \X (1..MaxSeq)

\* Signed Transfer: {sender, recipient, amount, sequence number, owner signature}.
SignedTransfers ==
    { t \in [from : Accounts, to : Accounts, amount : 1..MaxAmount,
             seq : 1..(MaxSeq + 1), sig : BOOLEAN] : t.from # t.to }

\* Transfer Validation: one Elder's share over a transfer, tagged with the
\* section-key index that produced it.
Validations ==
    { v \in [transfer : SignedTransfers, elder : Elders, index : 0..MaxIndex] :
        v.transfer.sig /\ v.transfer.seq <= MaxSeq }

VARIABLES
    routing,    \* the membership layer (routing::Node) the node holds
    replicas,   \* heap of ReplicaManager objects, by cell
    handles,    \* the cell each handle of KeySection points to
    finalized,  \* every Transfer Proof produced so far (history)
    last,       \* the last handler that ran: its name, the result of the
                \* replica call it made, and the message it returned
    chunks,     \* MapStorage.chunks: the Map chunk store, by address
    mresp,      \* what the last MapStorage::read / write returned
    dispatched, \* the last duty dispatched: the duty, the calls made to the
                \* components, in order, and the operation returned
    logged,     \* the lines written to the log (trace!) so far
    accounts,           \* MpidManager.accounts, by name
    chunk_store_inbox,  \* MpidManager.chunk_store_inbox: headers, by name
    chunk_store_outbox, \* MpidManager.chunk_store_outbox: messages, by name
    mpid        \* the last MpidManager handler that ran: its name, what it
                \* returned and what it asked the routing node to send

vars ==
    << routing, replicas, handles, finalized, last, chunks, mresp, dispatched, logged,
       accounts, chunk_store_inbox, chunk_store_outbox, mpid >>
ksvars == << routing, replicas, handles, finalized, last >>
mapvars == << chunks, mresp >>
dvars == << dispatched, logged >>
mpidvars == << accounts, chunk_store_inbox, chunk_store_outbox, mpid >>

\* ---------------------------------------------------------------- dispatch
\* KeySection::process and KeySection::evaluate (key_section/mod.rs) and
\* AdultDuties::receive_msg (adult_duties/mod.rs). The components they call
\* (Auth, ClientGateway, Payments, Transfers, ClientMsgAnalysis, Chunks) are
\* seen through the calls made to them and what those return.
PublicIds == [kind : { "Client", "App" }, user : Users]
MsgKinds == { "Cmd", "Query", "Unknown" }
\* A client envelope: its id, whether its signature verifies, its kind.
MsgEnvelopes == [id : MsgIds, sig_ok : BOOLEAN, kind : MsgKinds]
GroupDecisions == [cmd : 1..NumCmds, msg_id : MsgIds, origin : Users]
KeySectionDuties ==
    [kind : { "EvaluateClientMsg" }, public_id : PublicIds, msg : MsgEnvelopes]
      \cup [kind : { "ProcessGroupDecision" }, decision : GroupDecisions]
      \cup [kind : { "RunAsAuth", "RunAsGateway", "RunAsPayment", "RunAsTransfers" },
            duty : 1..2]

\* Auth::verify_client_signature: the error to return, if any.
verify_client_signature(msg) ==
    IF msg.sig_ok THEN None ELSE Some([op |-> "Error", error |-> "InvalidSignature",
                                       msg_id |-> msg.id])
\* Auth::authorise_app: an app has to be listed in the keys db.
authorise_app(public_id, msg, authorised) ==
    IF public_id.kind = "App" /\ ~authorised
    THEN Some([op |-> "Error", error |-> "AccessDenied", msg_id |-> msg.id])
    ELSE None
\* ClientMsgAnalysis::evaluate: the duty for the message, if it has one.
msg_analysis_evaluate(msg) ==
    IF msg.kind = "Unknown" THEN None
    ELSE Some([op |-> "Duty", for |-> msg.kind, msg_id |-> msg.id])

\* (mutant) the app authorisation is not asked for.
evaluate_skips_authorise(public_id, msg, authorised) ==
    IF verify_client_signature(msg) # None
    THEN [log |-> {}, calls |-> << "auth.verify_client_signature" >>,
          out |-> verify_client_signature(msg)]
    ELSE [log |-> {}, calls |-> << "auth.verify_client_signature", "msg_analysis.evaluate" >>,
          out |-> msg_analysis_evaluate(msg)]

\* KeySection::evaluate
evaluate(public_id, msg, authorised) ==
    IF verify_client_signature(msg) # None
    THEN [log |-> {}, calls |-> << "auth.verify_client_signature" >>,
          out |-> verify_client_signature(msg)]
    ELSE IF authorise_app(public_id, msg, authorised) # None
    THEN [log |-> {}, calls |-> << "auth.verify_client_signature", "auth.authorise_app" >>,
          out |-> authorise_app(public_id, msg, authorised)]
    ELSE [log |-> {}, calls |-> << "auth.verify_client_signature", "auth.authorise_app",
                       "msg_analysis.evaluate" >>,
          out |-> msg_analysis_evaluate(msg)]

\* (mutant) the duty is built with a message id of its own.
process_group_decision_new_id(decision) ==
    [calls |-> << >>, log |-> { "KeySection: Group decided on" },
     out |-> Some([op |-> "AuthDuty::Process", cmd |-> decision.cmd,
                   msg_id |-> CHOOSE id \in MsgIds : id # decision.msg_id,
                   origin |-> decision.origin])]

\* KeySection::process_group_decision
process_group_decision(decision) ==
    [calls |-> << >>, log |-> { "KeySection: Group decided on" },
     out |-> Some([op |-> "AuthDuty::Process", cmd |-> decision.cmd,
                   msg_id |-> decision.msg_id, origin |-> decision.origin])]

\* KeySection::process; handled is what the component called returns.
process(duty, authorised, handled) ==
    CASE duty.kind = "EvaluateClientMsg" -> evaluate(duty.public_id, duty.msg, authorised)
      [] duty.kind = "ProcessGroupDecision" -> process_group_decision(duty.decision)
      [] duty.kind = "RunAsAuth" -> [calls |-> << "auth.process" >>, log |-> {}, out |-> handled]
      [] duty.kind = "RunAsGateway" -> [calls |-> << "gateway.process" >>, log |-> {}, out |-> handled]
      [] duty.kind = "RunAsPayment" -> [calls |-> << "payments.process" >>, log |-> {}, out |-> handled]
      [] duty.kind = "RunAsTransfers" ->
            [calls |-> << "transfers.process" >>, log |-> {}, out |-> handled]

\* What a component may return: nothing, or an operation.
Handled == { None, Some([op |-> "Operation"]) }

\* A duty handed to KeySection::process.
KeySection_process(duty, authorised, handled) ==
    /\ dispatched' = [duty |-> Some(duty @@ [authorised |-> authorised]),
                      calls |-> process(duty, authorised, handled).calls,
                      out |-> process(duty, authorised, handled).out]
    /\ logged' = logged \cup process(duty, authorised, handled).log
    /\ UNCHANGED << ksvars, mapvars, mpidvars >>

\* AdultDuties::receive_msg
AdultDuties_receive_msg(msg, handled) ==
    /\ dispatched' = [duty |-> Some([kind |-> "AdultReceive", msg |-> msg]),
                      calls |-> << "chunks.receive_msg" >>,
                      out |-> handled]
    /\ UNCHANGED << ksvars, mapvars, logged, mpidvars >>

\* ------------------------------------------------------------- Map storage
\* MapStorage (node/elder_duties/data_section/metadata/map_storage.rs).
NumAddresses == 1    \* Map addresses
MaxVersion == 1      \* highest permissions version a Map may reach

MapAddresses == 1..NumAddresses
EntryKeys == { "k" }
MapActions == { "Read", "Insert", "ManagePermissions" }
PermissionSets == { {}, { "Read" }, MapActions }

\* NdResult<T>
NdOk(x) == [ok |-> TRUE, val |-> Some(x), err |-> "None"]
NdErr(e) == [ok |-> FALSE, val |-> None, err |-> e]
\* The Maps a client may send with MapWrite::New.
NoPermissions == [u \in Users |-> None]
NewMaps ==
    [address : MapAddresses, owner : Users, permissions : { NoPermissions },
     version : { 0 }, entries : [EntryKeys -> { None, Some(1) }]]

\* ---- safe_nd::Map, as far as MapStorage calls it
check_permissions(map, action, requester) ==
    IF map.owner = requester THEN NdOk("unit")
    ELSE IF map.permissions[requester] = None THEN NdErr("AccessDenied")
    ELSE IF action \in map.permissions[requester][1] THEN NdOk("unit")
    ELSE NdErr("AccessDenied")
\* (mutant) whoever may manage permissions passes for the owner.
check_is_owner_or_manager(map, requester) == check_permissions(map, "ManagePermissions", requester)

check_is_owner(map, requester) ==
    IF map.owner = requester THEN NdOk("unit") ELSE NdErr("AccessDenied")
Map_set_user_permissions(map, user, permissions, version) ==
    IF version # map.version + 1 THEN NdErr("InvalidSuccessor")
    ELSE NdOk([map EXCEPT !.permissions[user] = Some(permissions), !.version = version])
Map_del_user_permissions(map, user, version) ==
    IF version # map.version + 1 THEN NdErr("InvalidSuccessor")
    ELSE IF map.permissions[user] = None THEN NdErr("NoSuchKey")
    ELSE NdOk([map EXCEPT !.permissions[user] = None, !.version = version])
\* MapEntryActions here: insert value 1 at the given key.
mutate_entries(map, key, requester) ==
    IF ~check_permissions(map, "Insert", requester).ok THEN NdErr("AccessDenied")
    ELSE IF map.entries[key] # None THEN NdErr("InvalidEntryActions")
    ELSE NdOk([map EXCEPT !.entries[key] = Some(1)])
user_permissions(map, user) ==
    IF map.permissions[user] = None THEN NdErr("NoSuchKey")
    ELSE NdOk(map.permissions[user][1])
shell(map) == [map EXCEPT !.entries = [k \in EntryKeys |-> None]]
keys(map) == { k \in EntryKeys : map.entries[k] # None }
values(map) == { map.entries[k][1] : k \in keys(map) }

\* ---- MapChunkStore; a call may fail with a storage fault.
chunks_has(store, address) == store[address] # None
chunks_get(store, address, fault) ==
    IF store[address] = None THEN NdErr("NoSuchChunk")
    ELSE IF fault THEN NdErr("Io")
    ELSE NdOk(store[address][1])
chunks_put(store, map, fault) ==
    IF fault THEN [chunks |-> store, res |-> NdErr("Io")]
    ELSE [chunks |-> [store EXCEPT ![map.address] = Some(map)], res |-> NdOk("unit")]
chunks_delete(store, address, fault) ==
    IF fault THEN [chunks |-> store, res |-> NdErr("Io")]
    ELSE [chunks |-> [store EXCEPT ![address] = None], res |-> NdOk("unit")]
\* (mutant) every chunk store error is passed on as its text.
map_err_text_only(res) ==
    IF res.ok THEN res ELSE NdErr("ChunkStore error")

\* map_err: NoSuchChunk becomes NoSuchData, anything else its text.
map_err(res) ==
    IF res.ok THEN res
    ELSE IF res.err = "NoSuchChunk" THEN NdErr("NoSuchData")
    ELSE NdErr("ChunkStore error")

\* map_err(|error| error.to_string().into())
to_string_err(res) == IF res.ok THEN res ELSE NdErr("ChunkStore error")

\* The chunk store call that fails while a write is handled, if any.
StoreFaults == { "none", "get", "put" }

\* MapStorage::new: an empty chunk store.
MapStorage_new == [a \in MapAddresses |-> None]

\* ---- ElderMsgWrapping: the message handed to messaging. The id of the
\* message itself is fresh and plays no part here.
wrapping_send(kind, result, msg_id, origin) ==
    Some([msg |-> "QueryResponse", kind |-> kind, result |-> result,
          correlation_id |-> msg_id, dst |-> origin])
wrapping_error(error, msg_id, origin) ==
    Some([msg |-> "CmdError", kind |-> "Data", result |-> NdErr(error),
          correlation_id |-> msg_id, dst |-> origin])

\* (mutant) an error of the write is dropped.
ok_or_error_silent(result, msg_id, origin) == None

\* MapStorage::ok_or_error
ok_or_error(result, msg_id, origin) ==
    IF ~result.ok THEN wrapping_error(result.err, msg_id, origin) ELSE None

\* (mutant) the chunk is handed out without the permission check.
get_chunk_unchecked(store, address, origin, action, fault) ==
    Some(map_err(chunks_get(store, address, fault)))

\* MapStorage::get_chunk: always Some(result).
get_chunk(store, address, origin, action, fault) ==
    LET got == map_err(chunks_get(store, address, fault))
        checked == IF got.ok THEN check_permissions(got.val[1], action, origin) ELSE got
    IN Some(IF got.ok /\ checked.ok THEN got ELSE checked)

\* (mutant) the closures change the Map without asking for the permission.
mutation_fn_unchecked(f, data) ==
    CASE f.kind = "SetUserPermissions" -> Map_set_user_permissions(data, f.user, f.permissions, f.version)
      [] f.kind = "DelUserPermissions" -> Map_del_user_permissions(data, f.user, f.version)
      [] f.kind = "Edit" -> IF data.entries[f.key] # None THEN NdErr("InvalidEntryActions")
                            ELSE NdOk([data EXCEPT !.entries[f.key] = Some(1)])

\* The closures handed to edit_chunk by set_user_permissions,
\* delete_user_permissions and edit_entries, applied to the Map read.
mutation_fn(f, data) ==
    LET allowed == check_permissions(data, "ManagePermissions", f.origin) IN
    CASE f.kind = "SetUserPermissions" ->
            IF allowed.ok
            THEN Map_set_user_permissions(data, f.user, f.permissions, f.version)
            ELSE allowed
      [] f.kind = "DelUserPermissions" ->
            IF allowed.ok THEN Map_del_user_permissions(data, f.user, f.version)
            ELSE allowed
      [] f.kind = "Edit" -> mutate_entries(data, f.key, f.origin)

\* MapStorage::edit_chunk: get, mutate, put.
edit_chunk(store, address, origin, msg_id, f, get_fault, put_fault) ==
    LET got == map_err(chunks_get(store, address, get_fault))
        mutated == IF got.ok THEN mutation_fn(f, got.val[1]) ELSE got
        put == IF mutated.ok THEN chunks_put(store, mutated.val[1], put_fault)
               ELSE [chunks |-> store, res |-> mutated]
        result == IF mutated.ok THEN to_string_err(put.res) ELSE mutated
    IN [chunks |-> put.chunks, out |-> ok_or_error(result, msg_id, origin)]

\* (mutant) the chunk is put without asking whether the address is taken.
create_overwrites(store, data, msg_id, origin, put_fault) ==
    LET put == chunks_put(store, data, put_fault)
    IN [chunks |-> put.chunks, out |-> ok_or_error(to_string_err(put.res), msg_id, origin)]

\* MapStorage::create
create(store, data, msg_id, origin, put_fault) ==
    LET put == IF chunks_has(store, data.address)
               THEN [chunks |-> store, res |-> NdErr("DataExists")]
               ELSE chunks_put(store, data, put_fault)
        result == IF chunks_has(store, data.address) THEN put.res
                  ELSE to_string_err(put.res)
    IN [chunks |-> put.chunks, out |-> ok_or_error(result, msg_id, origin)]

\* MapStorage::delete
delete(store, address, msg_id, origin, get_fault, del_fault) ==
    LET got == map_err(chunks_get(store, address, get_fault))
        owner == IF got.ok THEN check_is_owner(got.val[1], origin) ELSE got
        del == IF owner.ok THEN chunks_delete(store, address, del_fault)
               ELSE [chunks |-> store, res |-> owner]
        result == IF owner.ok THEN to_string_err(del.res) ELSE owner
    IN [chunks |-> del.chunks, out |-> ok_or_error(result, msg_id, origin)]

\* MapStorage::set_user_permissions
set_user_permissions(store, address, user, permissions, version, msg_id, origin, gf, pf) ==
    edit_chunk(store, address, origin, msg_id,
               [kind |-> "SetUserPermissions", user |-> user, permissions |-> permissions,
                version |-> version, origin |-> origin], gf, pf)

\* MapStorage::delete_user_permissions
delete_user_permissions(store, address, user, version, msg_id, origin, gf, pf) ==
    edit_chunk(store, address, origin, msg_id,
               [kind |-> "DelUserPermissions", user |-> user, version |-> version,
                origin |-> origin], gf, pf)

\* MapStorage::edit_entries
edit_entries(store, address, key, msg_id, origin, gf, pf) ==
    edit_chunk(store, address, origin, msg_id,
               [kind |-> "Edit", key |-> key, origin |-> origin], gf, pf)

\* MapWrite
MapWrites ==
    [kind : { "New" }, data : NewMaps]
      \cup [kind : { "Delete" }, address : MapAddresses]
      \cup [kind : { "SetUserPermissions" }, address : MapAddresses, user : Users,
            permissions : PermissionSets, version : 1..(MaxVersion + 1)]
      \cup [kind : { "DelUserPermissions" }, address : MapAddresses, user : Users,
            version : 1..(MaxVersion + 1)]
      \cup [kind : { "Edit" }, address : MapAddresses, key : EntryKeys]
AddressOf(w) == IF w.kind = "New" THEN w.data.address ELSE w.address

\* MapStorage::write
write(store, w, msg_id, origin, get_fault, put_fault) ==
    CASE w.kind = "New" -> create(store, w.data, msg_id, origin, put_fault)
      [] w.kind = "Delete" -> delete(store, w.address, msg_id, origin, get_fault, put_fault)
      [] w.kind = "SetUserPermissions" ->
            set_user_permissions(store, w.address, w.user, w.permissions, w.version,
                                 msg_id, origin, get_fault, put_fault)
      [] w.kind = "DelUserPermissions" ->
            delete_user_permissions(store, w.address, w.user, w.version,
                                    msg_id, origin, get_fault, put_fault)
      [] w.kind = "Edit" ->
            edit_entries(store, w.address, w.key, msg_id, origin, get_fault, put_fault)

\* (mutant) the response carries another message id as correlation id.
get_fresh_correlation(store, address, msg_id, origin, fault) ==
    LET result == get_chunk(store, address, origin, "Read", fault)[1]
    IN wrapping_send("GetMap", result, CHOOSE id \in MsgIds : id # msg_id, origin)

\* MapStorage::get and the other eight reads: get_chunk with MapAction::Read,
\* then the QueryResponse of the read's kind, with the request's message id
\* as correlation id.
get(store, address, msg_id, origin, fault) ==
    LET result == get_chunk(store, address, origin, "Read", fault)[1]
    IN wrapping_send("GetMap", result, msg_id, origin)
get_shell(store, address, msg_id, origin, fault) ==
    LET res == get_chunk(store, address, origin, "Read", fault)[1]
        result == IF res.ok THEN NdOk(shell(res.val[1])) ELSE res
    IN wrapping_send("GetMapShell", result, msg_id, origin)
get_version(store, address, msg_id, origin, fault) ==
    LET res == get_chunk(store, address, origin, "Read", fault)[1]
        result == IF res.ok THEN NdOk(res.val[1].version) ELSE res
    IN wrapping_send("GetMapVersion", result, msg_id, origin)
get_value(store, address, key, msg_id, origin, fault) ==
    LET res == get_chunk(store, address, origin, "Read", fault)[1]
        result == IF ~res.ok THEN res
                  ELSE IF res.val[1].entries[key] = None THEN NdErr("NoSuchEntry")
                  ELSE NdOk(res.val[1].entries[key][1])
    IN wrapping_send("GetMapValue", result, msg_id, origin)
list_keys(store, address, msg_id, origin, fault) ==
    LET res == get_chunk(store, address, origin, "Read", fault)[1]
        result == IF res.ok THEN NdOk(keys(res.val[1])) ELSE res
    IN wrapping_send("ListMapKeys", result, msg_id, origin)
list_values(store, address, msg_id, origin, fault) ==
    LET res == get_chunk(store, address, origin, "Read", fault)[1]
        result == IF res.ok THEN NdOk(values(res.val[1])) ELSE res
    IN wrapping_send("ListMapValues", result, msg_id, origin)
list_entries(store, address, msg_id, origin, fault) ==
    LET res == get_chunk(store, address, origin, "Read", fault)[1]
        result == IF res.ok THEN NdOk(res.val[1].entries) ELSE res
    IN wrapping_send("ListMapEntries", result, msg_id, origin)
list_permissions(store, address, msg_id, origin, fault) ==
    LET res == get_chunk(store, address, origin, "Read", fault)[1]
        result == IF res.ok THEN NdOk(res.val[1].permissions) ELSE res
    IN wrapping_send("ListMapPermissions", result, msg_id, origin)
list_user_permissions(store, address, user, msg_id, origin, fault) ==
    LET res == get_chunk(store, address, origin, "Read", fault)[1]
        result == IF res.ok THEN user_permissions(res.val[1], user) ELSE res
    IN wrapping_send("ListMapUserPermissions", result, msg_id, origin)

\* MapRead
MapReads ==
    [kind : { "Get", "GetShell", "GetVersion", "ListEntries", "ListKeys", "ListValues",
              "ListPermissions" }, address : MapAddresses]
      \cup [kind : { "GetValue" }, address : MapAddresses, key : EntryKeys]
      \cup [kind : { "ListUserPermissions" }, address : MapAddresses, user : Users]

\* MapStorage::read
read(store, r, msg_id, origin, fault) ==
    CASE r.kind = "Get" -> get(store, r.address, msg_id, origin, fault)
      [] r.kind = "GetValue" -> get_value(store, r.address, r.key, msg_id, origin, fault)
      [] r.kind = "GetShell" -> get_shell(store, r.address, msg_id, origin, fault)
      [] r.kind = "GetVersion" -> get_version(store, r.address, msg_id, origin, fault)
      [] r.kind = "ListEntries" -> list_entries(store, r.address, msg_id, origin, fault)
      [] r.kind = "ListKeys" -> list_keys(store, r.address, msg_id, origin, fault)
      [] r.kind = "ListValues" -> list_values(store, r.address, msg_id, origin, fault)
      [] r.kind = "ListPermissions" ->
            list_permissions(store, r.address, msg_id, origin, fault)
      [] r.kind = "ListUserPermissions" ->
            list_user_permissions(store, r.address, r.user, msg_id, origin, fault)

\* A read handled by the Map storage: the store is left as it is.
MapStorage_read(r, msg_id, origin, fault) ==
    /\ mresp' = read(chunks, r, msg_id, origin, fault)
    /\ UNCHANGED << chunks, ksvars, dvars, mpidvars >>

\* A write handled by the Map storage. A permissions version beyond
\* MaxVersion is only let through when it is going to be refused.
MapStorage_write(w, msg_id, origin, get_fault, put_fault) ==
    /\ IF w.kind \in { "SetUserPermissions", "DelUserPermissions" }
       THEN IF w.version <= MaxVersion \/ chunks[w.address] = None THEN TRUE
            ELSE chunks[w.address][1].version + 1 # w.version
       ELSE TRUE
    /\ LET done == write(chunks, w, msg_id, origin, get_fault, put_fault)
       IN /\ chunks' = done.chunks
          /\ mresp' = done.out
    /\ UNCHANGED << ksvars, dvars, mpidvars >>

\* ------------------------------------------------------------ MpidManager
\* personas/mpid_manager.rs: the accounts of the MPID messaging persona, its
\* two chunk stores and its four request handlers.

NumMpids == 2           \* names of accounts
NumMetadata == 1        \* metadata values of a header
MaxBody == 2            \* a message body is 1..MaxBody bytes long
HeaderLen == 1          \* bytes of a serialised header
MAX_INBOX_SIZE == 1     \* allowance of an inbox, in bytes
MAX_OUTBOX_SIZE == 4    \* allowance of an outbox, in bytes
\* the range of the unsigned space counters; u64 in the source, narrowed to
\* a range the model checker's integers hold (sizes stay far below it)
U64 == 65536

MpidNames == 1..NumMpids
MpidHeaders == [sender : MpidNames, metadata : 1..NumMetadata]
MpidMessages == [header : MpidHeaders, recipient : MpidNames, body : 1..MaxBody]

\* MpidHeader::name: the hash of the header; distinct headers have distinct
\* names, and none is the name of an account.
MpidHeader_name(header) == NumMpids + (header.sender - 1) * NumMetadata + header.metadata
HeaderNames == { MpidHeader_name(h) : h \in MpidHeaders }

Client(n) == [kind |-> "Client", name |-> n]
ClientManager(n) == [kind |-> "ClientManager", name |-> n]
Authorities == { Client(n) : n \in MpidNames } \cup { ClientManager(n) : n \in MpidNames }

\* serialise / deserialise: a value becomes bytes that carry its type; bytes
\* decode only as the type they were made from.
Garbage == << "Garbage" >>
serialise(type, value) == << type, value >>
deserialise(type, bytes) == IF bytes[1] = type THEN NdOk(bytes[2]) ELSE NdErr("Serialisation")
len(bytes) == IF bytes[1] = "MpidHeader" THEN HeaderLen ELSE IF bytes[1] = "MpidMessage" THEN HeaderLen + bytes[2].body ELSE 1

\* injective sequences of header names: the orders a list of names can have
NameSeqs == { s \in UNION { [1..k -> HeaderNames] : k \in 0..Cardinality(HeaderNames) } : \A i, j \in DOMAIN s : s[i] = s[j] => i = j }
NameOrders == { s \in NameSeqs : Len(s) = Cardinality(HeaderNames) }

MpidMessageWrappers ==
    { [kind |-> "PutHeader", header |-> h] : h \in MpidHeaders }
    \cup { [kind |-> "PutMessage", message |-> msg] : msg \in MpidMessages }
    \cup { [kind |-> "GetMessage", header |-> h] : h \in MpidHeaders }
    \cup { [kind |-> "DeleteMessage", name |-> n] : n \in HeaderNames }
    \cup { [kind |-> "DeleteHeader", name |-> n] : n \in HeaderNames }
    \cup { [kind |-> "OutboxHas", names |-> s] : s \in NameSeqs }
    \cup { [kind |-> "Online"], [kind |-> "GetOutboxHeaders"] }

PlainData(name, value) == [name |-> name, value |-> value]
MessageId_new == 0
MpidMsgIds == 1..1

\* The PlainData a client library builds for a wrapper: "the name of the
\* PlainData is expected to be the mpidheader or mpidmessage name", and the
\* name of the destination for the wrappers that carry neither.
NameFor(w, dst) ==
    IF w.kind \in { "PutHeader", "GetMessage" } THEN MpidHeader_name(w.header)
    ELSE IF w.kind = "PutMessage" THEN MpidHeader_name(w.message.header)
    ELSE dst.name
DataFor(w, dst) == PlainData(NameFor(w, dst), serialise("MpidMessageWrapper", w))

\* the requests with a given content kind: one for every source, destination
\* and wrapper, and one whose value does not decode
RequestsOf(op, wrappers) ==
    { [src |-> src, dst |-> ClientManager(n), content |-> [op |-> op, data |-> DataFor(w, ClientManager(n)), id |-> id]] : src \in Authorities, n \in MpidNames, w \in wrappers, id \in MpidMsgIds }
    \cup { [src |-> src, dst |-> ClientManager(n), content |-> [op |-> op, data |-> PlainData(n, Garbage), id |-> id]] : src \in Authorities, n \in MpidNames, id \in MpidMsgIds }
Kind(kinds) == { w \in MpidMessageWrappers : w.kind \in kinds }

\* what the routing node was asked to send
Request(op, src, dst, data, id) == [type |-> op, src |-> src, dst |-> dst, data |-> data, id |-> id]
Failure(op, src, dst, request, external_error_indicator, id) == [type |-> op, src |-> src, dst |-> dst, request |-> request, external_error_indicator |-> external_error_indicator, id |-> id]

\* (mutant) the store never reports a chunk.
ChunkStore_has_chunk_never(store, name) == FALSE

\* ChunkStore
ChunkStore_has_chunk(store, name) == name \in DOMAIN store
ChunkStore_get(store, name) == IF name \in DOMAIN store THEN NdOk(store[name]) ELSE NdErr("ChunkStore")
ChunkStore_put(store, name, value) == [n \in DOMAIN store \cup { name } |-> IF n = name THEN value ELSE store[n]]
ChunkStore_delete(store, name) == [n \in DOMAIN store \ { name } |-> store[n]]

\* MailBox
MailBox_new(allowance) == [allowance |-> allowance, used_space |-> 0, space_available |-> allowance, mail_box |-> {}]

\* (mutant) the mailbox takes an entry whatever its size.
MailBox_put_unbounded(box, size, entry) ==
    IF entry \in box.mail_box THEN [ok |-> FALSE, box |-> box]
    ELSE [ok |-> TRUE,
          box |-> [box EXCEPT !.used_space = (@ + size) % U64,
                              !.space_available = (@ - size) % U64,
                              !.mail_box = @ \cup { entry }]]

\* (mutant) an entry that is turned down for its size is charged all the same.
MailBox_put_charges(box, size, entry) ==
    IF size > box.space_available THEN [ok |-> FALSE, box |-> [box EXCEPT !.used_space = (@ + size) % U64]]
    ELSE IF entry \in box.mail_box THEN [ok |-> FALSE, box |-> box]
    ELSE [ok |-> TRUE,
          box |-> [box EXCEPT !.used_space = (@ + size) % U64,
                              !.space_available = (@ - size) % U64,
                              !.mail_box = @ \cup { entry }]]

MailBox_put(box, size, entry) ==
    IF size > box.space_available THEN [ok |-> FALSE, box |-> box]
    ELSE IF entry \in box.mail_box THEN [ok |-> FALSE, box |-> box]
    ELSE [ok |-> TRUE,
          box |-> [box EXCEPT !.used_space = (@ + size) % U64,
                              !.space_available = (@ - size) % U64,
                              !.mail_box = @ \cup { entry }]]

\* overflow: the subtraction or the addition leaves the range of u64, which
\* panics in a build with overflow checks and wraps in one without
MailBox_remove(box, size, entry) ==
    IF entry \in box.mail_box
    THEN [ok |-> TRUE,
          overflow |-> size > box.used_space \/ box.space_available + size >= U64,
          box |-> [box EXCEPT !.used_space = (@ - size) % U64,
                              !.space_available = (@ + size) % U64,
                              !.mail_box = @ \ { entry }]]
    ELSE [ok |-> FALSE, overflow |-> FALSE, box |-> box]

\* Account
Account_default == [clients |-> << >>, inbox |-> MailBox_new(MAX_INBOX_SIZE), outbox |-> MailBox_new(MAX_OUTBOX_SIZE)]
Registered(account, authority) == \E i \in DOMAIN account.clients : account.clients[i] = authority
has_in_outbox(account, entry) == entry \in account.outbox.mail_box

register_online(account, client) ==
    IF client.kind = "Client" /\ ~Registered(account, client)
    THEN [account EXCEPT !.clients = Append(@, client)]
    ELSE account

\* accounts.entry(name).or_insert(Account::default())
or_insert(accs, name) == IF name \in DOMAIN accs THEN accs ELSE [n \in DOMAIN accs \cup { name } |-> IF n = name THEN Account_default ELSE accs[n]]

MpidManager_new == [accounts |-> << >>, chunk_store_inbox |-> << >>, chunk_store_outbox |-> << >>]

\* what a handler leaves behind: the manager, the Result it returns (or the
\* panic that ends it) and the messages it asked the routing node to send
Handled_as(m, res, sent) == [m |-> m, res |-> res, sent |-> sent]

\* (mutant) the notification goes back to the sender's own manager.
put_notification_to_self(request, mpid_message) ==
    Request("Put", request.dst, request.dst, PlainData(MpidHeader_name(mpid_message.header), serialise("MpidMessageWrapper", [kind |-> "PutHeader", header |-> mpid_message.header])), request.content.id)

\* handle_put, lines 209-215: the notification to the receiver's MpidManager
put_notification(request, mpid_message) ==
    Request("Put", request.dst, ClientManager(mpid_message.recipient), PlainData(MpidHeader_name(mpid_message.header), serialise("MpidMessageWrapper", [kind |-> "PutHeader", header |-> mpid_message.header])), request.content.id)

\* (mutant) the failure is given an id of its own.
put_failure_new_id(request) ==
    Failure("PutFailure", request.dst, request.src, request, << >>, MessageId_new)

put_failure(request) ==
    Failure("PutFailure", request.dst, request.src, request, << >>, request.content.id)

\* handle_put, the PutHeader arm
handle_put_header(m, request, mpid_header, put_fault) ==
    LET data == request.content.data
        serialised_header == serialise("MpidHeader", mpid_header)
        accs == or_insert(m.accounts, request.dst.name)
        put == MailBox_put(accs[request.dst.name].inbox, len(serialised_header), data.name)
        m1 == [m EXCEPT !.accounts = [accs EXCEPT ![request.dst.name].inbox = put.box]]
    IN  IF ChunkStore_has_chunk(m.chunk_store_inbox, data.name)
        THEN Handled_as(m, "Client(DataExists)", << >>)
        ELSE IF ~put.ok THEN Handled_as(m1, "Ok", << put_failure(request) >>)
        ELSE IF put_fault THEN Handled_as(m1, "ChunkStore", << >>)
        ELSE Handled_as([m1 EXCEPT !.chunk_store_inbox = ChunkStore_put(@, data.name, serialised_header)], "Ok", << >>)

\* handle_put, the PutMessage arm
handle_put_message(m, request, mpid_message, put_fault) ==
    LET data == request.content.data
        serialised_message == serialise("MpidMessage", mpid_message)
        accs == or_insert(m.accounts, request.dst.name)
        put == MailBox_put(accs[request.dst.name].outbox, len(serialised_message), data.name)
        m1 == [m EXCEPT !.accounts = [accs EXCEPT ![request.dst.name].outbox = put.box]]
    IN  IF ChunkStore_has_chunk(m.chunk_store_outbox, data.name)
        THEN Handled_as(m, "Client(DataExists)", << >>)
        ELSE IF ~put.ok THEN Handled_as(m1, "Ok", << put_failure(request) >>)
        ELSE IF put_fault THEN Handled_as(m1, "ChunkStore", << >>)
        ELSE Handled_as([m1 EXCEPT !.chunk_store_outbox = ChunkStore_put(@, data.name, serialised_message)], "Ok", << put_notification(request, mpid_message) >>)

handle_put(m, request, put_fault) ==
    LET wrapper == deserialise("MpidMessageWrapper", request.content.data.value)
    IN  IF request.content.op # "Put" THEN Handled_as(m, "Panic", << >>)
        ELSE IF ~wrapper.ok THEN Handled_as(m, "Serialisation", << >>)
        ELSE IF wrapper.val[1].kind = "PutHeader" THEN handle_put_header(m, request, wrapper.val[1].header, put_fault)
        ELSE IF wrapper.val[1].kind = "PutMessage" THEN handle_put_message(m, request, wrapper.val[1].message, put_fault)
        ELSE Handled_as(m, "Panic", << >>)

handle_put_failure(m, request) ==
    LET wrapper == deserialise("MpidMessageWrapper", request.content.data.value)
        mpid_header == wrapper.val[1].header
        account == m.accounts[request.src.name]
        told == /\ mpid_header.sender = request.src.name
                /\ request.src.name \in DOMAIN m.accounts
                /\ has_in_outbox(account, MpidHeader_name(mpid_header))
    IN  IF request.content.op # "Put" THEN Handled_as(m, "Panic", << >>)
        ELSE IF ~wrapper.ok THEN Handled_as(m, "Serialisation", << >>)
        ELSE IF wrapper.val[1].kind # "PutHeader" THEN Handled_as(m, "Panic", << >>)
        ELSE IF ~told THEN Handled_as(m, "Ok", << >>)
        ELSE Handled_as(m, "Ok", [i \in DOMAIN account.clients |-> Failure("PutFailure", request.src, account.clients[i], request, << >>, request.content.id)])

\* handle_post, the Online arm: one GetMessage request for each received
\* header that the inbox store holds, in the order the mailbox yields them
RECURSIVE fetch_messages(_, _, _)
fetch_messages(m, request, names) ==
    IF names = << >> THEN << >>
    ELSE LET got == ChunkStore_get(m.chunk_store_inbox, Head(names))
             mpid_header == deserialise("MpidHeader", got.val[1]).val[1]
         IN  IF Head(names) \in m.accounts[request.dst.name].inbox.mail_box /\ got.ok
             THEN << Request("Post", request.dst, ClientManager(mpid_header.sender), PlainData(MpidHeader_name(mpid_header), serialise("MpidMessageWrapper", [kind |-> "GetMessage", header |-> mpid_header])), request.content.id) >> \o fetch_messages(m, request, Tail(names))
             ELSE fetch_messages(m, request, Tail(names))

handle_post_online(m, request, order) ==
    LET accs == or_insert(m.accounts, request.dst.name)
        m1 == [m EXCEPT !.accounts = [accs EXCEPT ![request.dst.name] = register_online(@, request.src)]]
    IN  Handled_as(m1, "Ok", fetch_messages(m1, request, order))

\* (mutant) only the header of the stored message is sent back.
post_message_header_only(request, mpid_message) ==
    Request("Post", request.dst, request.src, PlainData(MpidHeader_name(mpid_message.header), serialise("MpidMessageWrapper", [kind |-> "PutHeader", header |-> mpid_message.header])), request.content.id)

\* handle_post, lines 312-318: the stored message goes to the requester
post_message(request, mpid_message) ==
    Request("Post", request.dst, request.src, PlainData(MpidHeader_name(mpid_message.header), serialise("MpidMessageWrapper", [kind |-> "PutMessage", message |-> mpid_message])), request.content.id)

\* handle_post, line 311: the stored message is the one asked for and the
\* requester is its recipient
may_fetch(request, header_name, mpid_message) ==
    MpidHeader_name(mpid_message.header) = header_name /\ mpid_message.recipient = request.src.name

\* handle_post, the GetMessage arm
handle_post_get_message(m, request, mpid_header) ==
    LET header_name == MpidHeader_name(mpid_header)
        got == ChunkStore_get(m.chunk_store_outbox, header_name)
        mpid_message == deserialise("MpidMessage", got.val[1]).val[1]
    IN  IF ~got.ok THEN Handled_as(m, "Ok", << Failure("PostFailure", request.dst, request.src, request, << >>, request.content.id) >>)
        ELSE IF may_fetch(request, header_name, mpid_message)
        THEN Handled_as(m, "Ok", << post_message(request, mpid_message) >>)
        ELSE Handled_as(m, "Ok", << >>)

\* handle_post, the PutMessage arm: the message is passed on to every
\* registered client of the receiver
handle_post_put_message(m, request, mpid_message) ==
    LET receiver == m.accounts[request.dst.name]
    IN  IF request.dst.name \in DOMAIN m.accounts /\ mpid_message.recipient = request.dst.name
        THEN Handled_as(m, "Ok", [i \in DOMAIN receiver.clients |-> Request("Post", request.dst, receiver.clients[i], request.content.data, request.content.id)])
        ELSE Handled_as(m, "Ok", << >>)

\* the headers of the messages the outbox store holds under the names given
RECURSIVE headers_of(_, _)
headers_of(m, names) ==
    IF names = << >> THEN << >>
    ELSE LET got == ChunkStore_get(m.chunk_store_outbox, Head(names))
         IN  IF got.ok THEN << deserialise("MpidMessage", got.val[1]).val[1].header >> \o headers_of(m, Tail(names))
             ELSE headers_of(m, Tail(names))

\* (mutant) the names asked for are not restricted to the account's outbox.
names_in_unfiltered(names, set) == names

RECURSIVE names_in(_, _)
names_in(names, set) ==
    IF names = << >> THEN << >>
    ELSE IF Head(names) \in set THEN << Head(names) >> \o names_in(Tail(names), set)
    ELSE names_in(Tail(names), set)

\* handle_post, the OutboxHas and GetOutboxHeaders arms
handle_post_outbox(m, request, kind, names) ==
    LET account == m.accounts[request.dst.name]
        mpid_headers == headers_of(m, names_in(names, account.outbox.mail_box))
    IN  IF request.dst.name \in DOMAIN m.accounts /\ Registered(account, request.src)
        THEN Handled_as(m, "Ok", << Request("Post", request.dst, request.src, PlainData(request.dst.name, serialise("MpidMessageWrapper", [kind |-> kind, headers |-> mpid_headers])), request.content.id) >>)
        ELSE Handled_as(m, "Ok", << >>)

handle_post(m, request, order) ==
    LET wrapper == deserialise("MpidMessageWrapper", request.content.data.value)
        w == wrapper.val[1]
    IN  IF request.content.op # "Post" THEN Handled_as(m, "Panic", << >>)
        ELSE IF ~wrapper.ok THEN Handled_as(m, "Serialisation", << >>)
        ELSE IF w.kind = "Online" THEN handle_post_online(m, request, order)
        ELSE IF w.kind = "GetMessage" THEN handle_post_get_message(m, request, w.header)
        ELSE IF w.kind = "PutMessage" THEN handle_post_put_message(m, request, w.message)
        ELSE IF w.kind = "OutboxHas" THEN handle_post_outbox(m, request, "OutboxHasResponse", w.names)
        ELSE IF w.kind = "GetOutboxHeaders" THEN handle_post_outbox(m, request, "GetOutboxHeadersResponse", order)
        ELSE Handled_as(m, "Panic", << >>)

\* (mutant) the chunk stays in the store.
outbox_delete_keeps(store, name) == store

\* handle_delete, line 422: chunk_store_outbox.delete
outbox_delete(store, name) == ChunkStore_delete(store, name)

\* handle_delete, the DeleteMessage arm
handle_delete_message(m, request, message_name, delete_fault, overflow_checks) ==
    LET account == m.accounts[request.dst.name]
        registered == Registered(account, request.src)
        got == ChunkStore_get(m.chunk_store_outbox, message_name)
        mpid_message == deserialise("MpidMessage", got.val[1]).val[1]
        removed == MailBox_remove(account.outbox, len(got.val[1]), message_name)
        m1 == [m EXCEPT !.chunk_store_outbox = outbox_delete(@, message_name)]
    IN  IF request.dst.name \notin DOMAIN m.accounts THEN Handled_as(m, "Ok", << >>)
        ELSE IF ~got.ok THEN Handled_as(m, "Ok", << Failure("DeleteFailure", request.dst, request.src, request, << >>, request.content.id) >>)
        ELSE IF ~registered /\ mpid_message.recipient # request.src.name THEN Handled_as(m, "Ok", << >>)
        ELSE IF delete_fault THEN Handled_as(m, "ChunkStore", << >>)
        ELSE IF removed.overflow /\ overflow_checks THEN Handled_as(m1, "Panic", << >>)
        ELSE Handled_as([m1 EXCEPT !.accounts[request.dst.name].outbox = removed.box], "Ok", << >>)

\* handle_delete, the DeleteHeader arm
handle_delete_header(m, request, header_name, delete_fault, overflow_checks) ==
    LET account == m.accounts[request.dst.name]
        got == ChunkStore_get(m.chunk_store_inbox, header_name)
        removed == MailBox_remove(account.inbox, len(got.val[1]), header_name)
        m1 == [m EXCEPT !.chunk_store_inbox = ChunkStore_delete(@, header_name)]
    IN  IF request.dst.name \notin DOMAIN m.accounts THEN Handled_as(m, "Ok", << >>)
        ELSE IF ~Registered(account, request.src) THEN Handled_as(m, "Ok", << >>)
        ELSE IF ~got.ok THEN Handled_as(m, "Ok", << Failure("DeleteFailure", request.dst, request.src, request, << >>, request.content.id) >>)
        ELSE IF delete_fault THEN Handled_as(m, "ChunkStore", << >>)
        ELSE IF removed.overflow /\ overflow_checks THEN Handled_as(m1, "Panic", << >>)
        ELSE Handled_as([m1 EXCEPT !.accounts[request.dst.name].inbox = removed.box], "Ok", << >>)

handle_delete(m, request, delete_fault, overflow_checks) ==
    LET wrapper == deserialise("MpidMessageWrapper", request.content.data.value)
        w == wrapper.val[1]
    IN  IF request.content.op # "Delete" THEN Handled_as(m, "Panic", << >>)
        ELSE IF ~wrapper.ok THEN Handled_as(m, "Serialisation", << >>)
        ELSE IF w.kind = "DeleteMessage" THEN handle_delete_message(m, request, w.name, delete_fault, overflow_checks)
        ELSE IF w.kind = "DeleteHeader" THEN handle_delete_header(m, request, w.name, delete_fault, overflow_checks)
        ELSE Handled_as(m, "Panic", << >>)

\* the manager as the handlers see it
Manager == [accounts |-> accounts, chunk_store_inbox |-> chunk_store_inbox, chunk_store_outbox |-> chunk_store_outbox]

\* a request whose content is of another kind than the handler expects
Misrouted(op) == [src |-> Client(1), dst |-> ClientManager(1), content |-> [op |-> op, data |-> DataFor([kind |-> "Online"], ClientManager(1)), id |-> 1]]

\* The requests the vault hands to the persona: the header of one sender,
\* its messages of one body length, and a client that comes online does so
\* at the manager of its own name.
OneHeader == [sender |-> 1, metadata |-> 1]
Plain(wrappers) ==
    { w \in wrappers : /\ w.kind = "PutMessage" => (w.message.body = 1 /\ w.message.header = OneHeader)
                       /\ w.kind \in { "PutHeader", "GetMessage" } => w.header = OneHeader
                       /\ w.kind \in { "DeleteMessage", "DeleteHeader" } => w.name = MpidHeader_name(OneHeader)
                       /\ w.kind = "OutboxHas" => Len(w.names) <= 1 }
AtHome(requests) == { r \in requests : (r.content.data.value = serialise("MpidMessageWrapper", [kind |-> "Online"]) /\ r.src.kind = "Client") => r.src.name = r.dst.name }

PutRequests == RequestsOf("Put", Plain(Kind({ "PutHeader", "PutMessage", "Online" }))) \cup { Misrouted("Post") }
PutFailureRequests == RequestsOf("Put", Plain(Kind({ "PutHeader", "Online" }))) \cup { Misrouted("Post") }
PostRequests == AtHome(RequestsOf("Post", Plain(Kind({ "Online", "GetMessage", "PutMessage", "OutboxHas", "GetOutboxHeaders", "DeleteHeader" })))) \cup { Misrouted("Put") }
DeleteRequests == RequestsOf("Delete", Plain(Kind({ "DeleteMessage", "DeleteHeader", "Online" }))) \cup { Misrouted("Put") }

\* what is observed of the messages a handler sent: their kinds, in order
Types(sent) == [i \in DOMAIN sent |-> sent[i].type]

\* a handler has run: the manager is as it left it; what it returned, the
\* kinds of the messages it sent and whether it changed the manager are kept
Outcome(op, handled) ==
    /\ accounts' = handled.m.accounts
    /\ chunk_store_inbox' = handled.m.chunk_store_inbox
    /\ chunk_store_outbox' = handled.m.chunk_store_outbox
    /\ mpid' = [op |-> op, res |-> handled.res, sent |-> Types(handled.sent), wrote |-> handled.m # Manager]
    /\ UNCHANGED << ksvars, mapvars, dvars >>

\* each handler runs while the node is up: a panic ends the node
MpidManager_handle_put(request, put_fault) ==
    /\ mpid.res # "Panic"
    /\ Outcome("handle_put", handle_put(Manager, request, put_fault))

MpidManager_handle_put_failure(request) ==
    /\ mpid.res # "Panic"
    /\ Outcome("handle_put_failure", handle_put_failure(Manager, request))

MpidManager_handle_post(request, order) ==
    /\ mpid.res # "Panic"
    /\ Outcome("handle_post", handle_post(Manager, request, order))

MpidManager_handle_delete(request, delete_fault, overflow_checks) ==
    /\ mpid.res # "Panic"
    /\ Outcome("handle_delete", handle_delete(Manager, request, delete_fault, overflow_checks))

\* -------------------------------------------------------------- membership
\* The values routing hands out while the section key has index i.
public_key_set(rt) == rt.index
secret_key_share(rt) == rt.index
our_history(rt) == rt.index
our_index(rt) == rt.index

\* ------------------------------------------------------------ replica state
IsPrefixOf(p, id) == Len(p) <= Len(id) /\ SubSeq(id, 1, Len(p)) = p

IdleSlot == [st |-> "Idle", transfer |-> None, shares |-> {}]

ReplicaInfo(pks, sks, idx, chain) ==
    [pub_key_set |-> pks, sec_key_share |-> sks, our_index |-> idx,
     proof_chain |-> chain]

\* The Replica of one section: the accounts under its prefix, their ledgers
\* and the per-transfer state keyed by sender and sequence number.
NoSection ==
    [active |-> FALSE, accounts |-> {}, ledger |-> [a \in Accounts |-> << >>],
     pending |-> [k \in Keys |-> IdleSlot]]

SeededSection(seeded, ledger) ==
    [active |-> TRUE, accounts |-> seeded,
     ledger |-> [a \in Accounts |-> IF a \in seeded THEN ledger[a] ELSE << >>],
     pending |-> [k \in Keys |-> IdleSlot]]

NoReplica ==
    [info |-> ReplicaInfo(0, 0, 0, 0), catchup_pending |-> FALSE,
     sect |-> [p \in Prefixes |-> NoSection]]

\* ReplicaManager::new(secret_key_share, key_index, public_key_set, events, proof_chain)
ReplicaManager_new(sks, idx, pks, events, chain) ==
    [info |-> ReplicaInfo(pks, sks, idx, chain), catchup_pending |-> FALSE,
     sect |-> [p \in Prefixes |->
                IF p = RootPrefix
                THEN SeededSection(Accounts, [a \in Accounts |-> events])
                ELSE NoSection]]

Key(t) == << t.from, t.seq >>

Debits(led, a) == { i \in DOMAIN led : led[i].transfer.from = a }
Credits(led, a) == { i \in DOMAIN led : led[i].transfer.to = a }

\* The account's last finalized sequence number at a section's Replica.
LastSeq(sec, a) == Cardinality(Debits(sec.ledger[a], a))

RECURSIVE SumAmounts(_, _)
SumAmounts(led, S) ==
    IF S = {} THEN 0
    ELSE LET i == CHOOSE j \in S : TRUE
         IN led[i].transfer.amount + SumAmounts(led, S \ {i})

\* Balance by replay of a ledger.
Replay(led, a) ==
    GenesisBalance + SumAmounts(led, Credits(led, a)) - SumAmounts(led, Debits(led, a))

OkSome(e) == [tag |-> "OkSome", event |-> e, err |-> "None"]
OkNone(why) == [tag |-> "OkNone", event |-> None, err |-> why]
Err(e) == [tag |-> "Err", event |-> None, err |-> e]

\* The ordering error: the sequence number is not the next one, or the next
\* one is taken by another transfer that awaits validations.
IsOrderingError(e) == e \in { "OrderingError", "OrderingError:Pending" }

\* propose(signed_transfer) at the Replica of section p: the checks, without
\* effect on the state.
ReplicaPropose(r, p, t) ==
    LET sec == r.sect[p] IN
    IF ~t.sig THEN Err("InvalidSignature")
    ELSE IF r.catchup_pending THEN Err("CatchupPending")
    ELSE IF t.from \notin sec.accounts THEN Err("NoSuchAccount")
    ELSE IF t.seq # LastSeq(sec, t.from) + 1 THEN Err("OrderingError")
    ELSE IF sec.pending[Key(t)].st = "Awaiting"
         THEN IF sec.pending[Key(t)].transfer = Some(t)
              THEN OkNone("AlreadyProposed")
              ELSE Err("OrderingError:Pending")
    ELSE OkSome([signed_transfer |-> t, index |-> r.info.our_index])

SharesUnder(shares, idx) == { s \in shares : s.index = idx }

\* Transfer Proof: the shares combined into one signature, which verifies
\* under the key set of the index the shares were produced with.
Combine(t, shares) ==
    [transfer |-> t, index |-> (CHOOSE s \in shares : TRUE).index]

\* receive_validation(validation) at the Replica of section p: the checks,
\* without effect on the state.
ReplicaReceive(r, p, v) ==
    LET slot == r.sect[p].pending[Key(v.transfer)] IN
    IF v.index # r.info.our_index THEN OkNone("StaleDropped")
    ELSE IF \E i \in DOMAIN r.sect[p].ledger[v.transfer.from] :
                r.sect[p].ledger[v.transfer.from][i].transfer = v.transfer
         THEN OkNone("AlreadyFinalized")
    ELSE IF slot.st # "Awaiting" \/ slot.transfer # Some(v.transfer) THEN OkNone("NoOp")
    ELSE IF \E s \in slot.shares : s.elder = v.elder THEN OkNone("AlreadySeen")
    ELSE LET shares == slot.shares \cup { [elder |-> v.elder, index |-> v.index] }
             same == SharesUnder(shares, r.info.our_index)
         IN OkSome([validation |-> v,
                    proof |-> IF Cardinality(same) >= Threshold
                              THEN Some(Combine(v.transfer, same))
                              ELSE NoProof])

\* apply(TransferInitiated(event))
ApplyTransferInitiated(r, p, e) ==
    [r EXCEPT !.sect[p].pending[Key(e.signed_transfer)] =
        [st |-> "Awaiting", transfer |-> Some(e.signed_transfer), shares |-> {}]]

\* The entry goes to the ledger of account a at the Replica that holds a.
AppendEntry(r, a, proof) ==
    [r EXCEPT !.sect = [q \in Prefixes |->
        IF a \in r.sect[q].accounts
        THEN [r.sect[q] EXCEPT !.ledger[a] = Append(@, proof)]
        ELSE r.sect[q]]]

\* apply(TransferValidationReceived(event))
ApplyTransferValidationReceived(r, p, e) ==
    LET k == Key(e.validation.transfer)
        sh == [elder |-> e.validation.elder, index |-> e.validation.index]
    IN IF e.proof = NoProof
       THEN [r EXCEPT !.sect[p].pending[k].shares = @ \cup {sh}]
       ELSE AppendEntry(
                AppendEntry([r EXCEPT !.sect[p].pending[k] = IdleSlot],
                            e.proof[1].transfer.from, e.proof[1]),
                e.proof[1].transfer.to, e.proof[1])

\* update_replica_on_churn(pub_key_set, sec_key_share, our_index, proof_chain):
\* a new Replica Info replaces the old one; what was in flight is abandoned.
update_replica_on_churn(r, pks, sks, idx, chain) ==
    [r EXCEPT !.info = ReplicaInfo(pks, sks, idx, chain),
              !.sect = [q \in Prefixes |->
                          [r.sect[q] EXCEPT !.pending = [k \in Keys |-> IdleSlot]]]]

\* ------------------------------------------------------------- KeySection
\* KeySection::replica_manager: one ReplicaManager built from routing's
\* values, with no events (vec![]).
replica_manager(rt) ==
    ReplicaManager_new(secret_key_share(rt), our_index(rt), public_key_set(rt),
                       << >>, our_history(rt))

\* (mutant) Payments and Transfers each get a ReplicaManager of their own.
KeySection_new_unshared(rt) ==
    [handles |-> [h \in Handles |-> IF h = "payments" THEN 2 ELSE 1],
     heap |-> [o \in ObjIds |-> replica_manager(rt)]]

\* KeySection::new: Payments and Transfers get clones of one Rc<RefCell<..>>,
\* i.e. both handles point to the same cell.
KeySection_new(rt) ==
    [handles |-> [h \in Handles |-> 1],
     heap |-> [o \in ObjIds |-> IF o = 1 THEN replica_manager(rt) ELSE NoReplica]]

Replica(h) == replicas[handles[h]]

Active(p) == Replica("transfers").sect[p].active

\* The heap after a handler wrote r2 through handle h.
Commit(h, r2) == [replicas EXCEPT ![handles[h]] = r2]

Init ==
    /\ routing = [index |-> 0, notified |-> FALSE]
    /\ handles = KeySection_new([index |-> 0, notified |-> FALSE]).handles
    /\ replicas = KeySection_new([index |-> 0, notified |-> FALSE]).heap
    /\ finalized = {}
    /\ last = [op |-> "new", res |-> "Ok", out |-> None]
    /\ chunks = MapStorage_new
    /\ mresp = None
    /\ dispatched = [duty |-> None, calls |-> << >>, out |-> None]
    /\ logged = {}
    /\ accounts = MpidManager_new.accounts
    /\ chunk_store_inbox = MpidManager_new.chunk_store_inbox
    /\ chunk_store_outbox = MpidManager_new.chunk_store_outbox
    /\ mpid = [op |-> "new", res |-> "Ok", sent |-> << >>, wrote |-> FALSE]

\* KeySection::process, RunAsPayment / RunAsTransfers carrying a proposed
\* transfer: the duty goes to the handle's replica; a rejection is reported
\* to the origin. The network routes a message to the section whose prefix
\* matches the sender account.
KeySection_process_propose(p, h, t) ==
    /\ Active(p)
    /\ IsPrefixOf(p, t.from)
    /\ t.seq <= MaxSeq \/ t.seq # LastSeq(Replica(h).sect[p], t.from) + 1
    /\ LET r == Replica(h)
           res == ReplicaPropose(r, p, t)
       IN CASE res.tag = "OkSome" ->
                 /\ replicas' = Commit(h, ApplyTransferInitiated(r, p, res.event))
                 /\ last' = [op |-> "propose", res |-> "Validated",
                             out |-> Some("TransferValidated")]
            [] res.tag = "OkNone" ->
                 /\ replicas' = replicas
                 /\ last' = [op |-> "propose", res |-> res.err, out |-> None]
            [] res.tag = "Err" ->
                 /\ replicas' = replicas
                 /\ last' = [op |-> "propose", res |-> res.err, out |-> Some("CmdError")]
    /\ UNCHANGED << routing, handles, finalized >>
    /\ UNCHANGED << mapvars, dvars, mpidvars >>

\* ----------------------------------------------------------- SectionFunds
\* The account the reward actor of section p pays from.
ActorId(p) == IF p = <<1>> THEN <<1, 0>> ELSE <<0, 1>>

\* The reward actor works on the Elder's replica.
ActorHandle == "transfers"

\* actor.transfer(amount, to): a proposal for the actor's next debit.
ActorTransfer(r, p, amount, to) ==
    ReplicaPropose(r, p, [from |-> ActorId(p), to |-> to, amount |-> amount,
                          seq |-> LastSeq(r.sect[p], ActorId(p)) + 1, sig |-> TRUE])

\* (mutant) the TransferInitiated event is sent but not applied to the actor.
SectionFunds_initiate_reward_payout_no_apply(p, amount, to) ==
    /\ Active(p)
    /\ to # ActorId(p)
    /\ LastSeq(Replica(ActorHandle).sect[p], ActorId(p)) < MaxSeq
    /\ LET r == Replica(ActorHandle)
           res == ActorTransfer(r, p, amount, to)
       IN CASE res.tag = "OkSome" ->
                 /\ replicas' = replicas
                 /\ last' = [op |-> "initiate_reward_payout", res |-> "Initiated",
                             out |-> Some("InitiateRewardPayout")]
            [] res.tag = "OkNone" ->
                 /\ replicas' = replicas
                 /\ last' = [op |-> "initiate_reward_payout", res |-> res.err, out |-> None]
            [] res.tag = "Err" ->
                 /\ replicas' = replicas
                 /\ last' = [op |-> "initiate_reward_payout", res |-> res.err, out |-> None]
    /\ UNCHANGED << routing, handles, finalized >>
    /\ UNCHANGED << mapvars, dvars, mpidvars >>

\* SectionFunds::initiate_reward_payout(amount, to)
SectionFunds_initiate_reward_payout(p, amount, to) ==
    /\ Active(p)
    /\ to # ActorId(p)
    /\ LastSeq(Replica(ActorHandle).sect[p], ActorId(p)) < MaxSeq
    /\ LET r == Replica(ActorHandle)
           res == ActorTransfer(r, p, amount, to)
       IN CASE res.tag = "OkSome" ->
                 /\ replicas' = Commit(ActorHandle, ApplyTransferInitiated(r, p, res.event))
                 /\ last' = [op |-> "initiate_reward_payout", res |-> "Initiated",
                             out |-> Some("InitiateRewardPayout")]
            [] res.tag = "OkNone" ->
                 /\ replicas' = replicas
                 /\ last' = [op |-> "initiate_reward_payout", res |-> res.err, out |-> None]
            [] res.tag = "Err" ->
                 /\ replicas' = replicas
                 /\ last' = [op |-> "initiate_reward_payout", res |-> res.err, out |-> None]
    /\ UNCHANGED << routing, handles, finalized >>
    /\ UNCHANGED << mapvars, dvars, mpidvars >>

\* (mutant) the announcement is sent for every validation the actor takes.
SectionFunds_receive_always_announces(p, v) ==
    /\ Active(p)
    /\ IsPrefixOf(p, v.transfer.from)
    /\ v.index <= routing.index
    /\ LET r == Replica(ActorHandle)
           res == ReplicaReceive(r, p, v)
       IN CASE res.tag = "OkSome" ->
                 /\ replicas' = Commit(ActorHandle,
                                       ApplyTransferValidationReceived(r, p, res.event))
                 /\ finalized' = IF res.event.proof = NoProof
                                 THEN finalized
                                 ELSE finalized \cup { res.event.proof[1] }
                 /\ last' = [op |-> "receive",
                             res |-> IF res.event.proof = NoProof
                                     THEN "Accumulated" ELSE "Finalized",
                             out |-> Some("FinaliseRewardPayout")]
            [] res.tag = "OkNone" ->
                 /\ replicas' = replicas
                 /\ finalized' = finalized
                 /\ last' = [op |-> "receive", res |-> res.err, out |-> None]
            [] res.tag = "Err" ->
                 /\ replicas' = replicas
                 /\ finalized' = finalized
                 /\ last' = [op |-> "receive", res |-> res.err, out |-> None]
    /\ UNCHANGED << routing, handles >>
    /\ UNCHANGED << mapvars, dvars, mpidvars >>

\* (mutant) Ok(None) is answered with the announcement as well.
SectionFunds_receive_none_announces(p, v) ==
    /\ Active(p)
    /\ IsPrefixOf(p, v.transfer.from)
    /\ v.index <= routing.index
    /\ LET r == Replica(ActorHandle)
           res == ReplicaReceive(r, p, v)
       IN CASE res.tag = "OkSome" ->
                 /\ replicas' = Commit(ActorHandle,
                                       ApplyTransferValidationReceived(r, p, res.event))
                 /\ finalized' = IF res.event.proof = NoProof
                                 THEN finalized
                                 ELSE finalized \cup { res.event.proof[1] }
                 /\ last' = IF res.event.proof = NoProof
                            THEN [op |-> "receive", res |-> "Accumulated", out |-> None]
                            ELSE [op |-> "receive", res |-> "Finalized",
                                  out |-> Some("FinaliseRewardPayout")]
            [] res.tag = "OkNone" ->
                 /\ replicas' = replicas
                 /\ finalized' = finalized
                 /\ last' = [op |-> "receive", res |-> res.err,
                             out |-> Some("FinaliseRewardPayout")]
            [] res.tag = "Err" ->
                 /\ replicas' = replicas
                 /\ finalized' = finalized
                 /\ last' = [op |-> "receive", res |-> res.err, out |-> None]
    /\ UNCHANGED << routing, handles >>
    /\ UNCHANGED << mapvars, dvars, mpidvars >>

\* (mutant) the TransferValidationReceived event is not applied to the actor.
SectionFunds_receive_no_apply(p, v) ==
    /\ Active(p)
    /\ IsPrefixOf(p, v.transfer.from)
    /\ v.index <= routing.index
    /\ LET r == Replica(ActorHandle)
           res == ReplicaReceive(r, p, v)
       IN CASE res.tag = "OkSome" ->
                 /\ replicas' = replicas
                 /\ finalized' = finalized
                 /\ last' = IF res.event.proof = NoProof
                            THEN [op |-> "receive", res |-> "Accumulated", out |-> None]
                            ELSE [op |-> "receive", res |-> "Finalized",
                                  out |-> Some("FinaliseRewardPayout")]
            [] res.tag = "OkNone" ->
                 /\ replicas' = replicas
                 /\ finalized' = finalized
                 /\ last' = [op |-> "receive", res |-> res.err, out |-> None]
            [] res.tag = "Err" ->
                 /\ replicas' = replicas
                 /\ finalized' = finalized
                 /\ last' = [op |-> "receive", res |-> res.err, out |-> None]
    /\ UNCHANGED << routing, handles >>
    /\ UNCHANGED << mapvars, dvars, mpidvars >>

\* SectionFunds::receive(validation)
SectionFunds_receive(p, v) ==
    /\ Active(p)
    /\ IsPrefixOf(p, v.transfer.from)
    /\ v.index <= routing.index
    /\ LET r == Replica(ActorHandle)
           res == ReplicaReceive(r, p, v)
       IN CASE res.tag = "OkSome" ->
                 /\ replicas' = Commit(ActorHandle,
                                       ApplyTransferValidationReceived(r, p, res.event))
                 /\ finalized' = IF res.event.proof = NoProof
                                 THEN finalized
                                 ELSE finalized \cup { res.event.proof[1] }
                 /\ last' = IF res.event.proof = NoProof
                            THEN [op |-> "receive", res |-> "Accumulated", out |-> None]
                            ELSE [op |-> "receive", res |-> "Finalized",
                                  out |-> Some("FinaliseRewardPayout")]
            [] res.tag = "OkNone" ->
                 /\ replicas' = replicas
                 /\ finalized' = finalized
                 /\ last' = [op |-> "receive", res |-> res.err, out |-> None]
            [] res.tag = "Err" ->
                 /\ replicas' = replicas
                 /\ finalized' = finalized
                 /\ last' = [op |-> "receive", res |-> res.err, out |-> None]
    /\ UNCHANGED << routing, handles >>
    /\ UNCHANGED << mapvars, dvars, mpidvars >>

\* ------------------------------------------------------------------ churn
\* The membership layer rotates the section key and notifies the node.
RoutingChurn ==
    /\ routing.index < MaxIndex
    /\ routing' = [index |-> routing.index + 1, notified |-> TRUE]
    /\ UNCHANGED << replicas, handles, finalized, last >>
    /\ UNCHANGED << mapvars, dvars, mpidvars >>

\* (mutant) the replica is built anew from routing, as KeySection::new does,
\* instead of being updated.
KeySection_elders_changed_rebuild(pks_ok, sks_ok, chain_ok, idx_ok, upd_ok) ==
    /\ routing.notified
    /\ IF pks_ok /\ sks_ok /\ chain_ok /\ idx_ok /\ upd_ok
       THEN /\ replicas' = Commit("transfers", replica_manager(routing))
            /\ routing' = [routing EXCEPT !.notified = FALSE]
            /\ last' = [op |-> "elders_changed", res |-> "Swapped", out |-> None]
       ELSE /\ UNCHANGED << replicas, routing >>
            /\ last' = [op |-> "elders_changed", res |-> "Failed", out |-> None]
    /\ UNCHANGED << handles, finalized >>
    /\ UNCHANGED << mapvars, dvars, mpidvars >>

\* (mutant) each value is put into the Replica Info as soon as it is fetched.
KeySection_elders_changed_piecemeal(pks_ok, sks_ok, chain_ok, idx_ok, upd_ok) ==
    /\ routing.notified
    /\ IF pks_ok /\ sks_ok /\ chain_ok /\ idx_ok /\ upd_ok
       THEN /\ replicas' = Commit("transfers",
                                  update_replica_on_churn(Replica("transfers"),
                                                          public_key_set(routing),
                                                          secret_key_share(routing),
                                                          our_index(routing),
                                                          our_history(routing)))
            /\ routing' = [routing EXCEPT !.notified = FALSE]
            /\ last' = [op |-> "elders_changed", res |-> "Swapped", out |-> None]
       ELSE /\ replicas' = Commit("transfers",
                   [Replica("transfers") EXCEPT !.info =
                      LET old == Replica("transfers").info IN
                      ReplicaInfo(IF pks_ok THEN public_key_set(routing) ELSE old.pub_key_set,
                                  IF pks_ok /\ sks_ok THEN secret_key_share(routing)
                                  ELSE old.sec_key_share,
                                  IF pks_ok /\ sks_ok /\ chain_ok /\ idx_ok
                                  THEN our_index(routing) ELSE old.our_index,
                                  IF pks_ok /\ sks_ok /\ chain_ok THEN our_history(routing)
                                  ELSE old.proof_chain)])
            /\ UNCHANGED routing
            /\ last' = [op |-> "elders_changed", res |-> "Failed", out |-> None]
    /\ UNCHANGED << handles, finalized >>
    /\ UNCHANGED << mapvars, dvars, mpidvars >>

\* (mutant) a failed fetch also discards the transfers in flight.
KeySection_elders_changed_abandons_on_failure(pks_ok, sks_ok, chain_ok, idx_ok, upd_ok) ==
    /\ routing.notified
    /\ IF pks_ok /\ sks_ok /\ chain_ok /\ idx_ok /\ upd_ok
       THEN /\ replicas' = Commit("transfers",
                                  update_replica_on_churn(Replica("transfers"),
                                                          public_key_set(routing),
                                                          secret_key_share(routing),
                                                          our_index(routing),
                                                          our_history(routing)))
            /\ routing' = [routing EXCEPT !.notified = FALSE]
            /\ last' = [op |-> "elders_changed", res |-> "Swapped", out |-> None]
       ELSE /\ replicas' = Commit("transfers",
                                  update_replica_on_churn(Replica("transfers"),
                                                          Replica("transfers").info.pub_key_set,
                                                          Replica("transfers").info.sec_key_share,
                                                          Replica("transfers").info.our_index,
                                                          Replica("transfers").info.proof_chain))
            /\ UNCHANGED routing
            /\ last' = [op |-> "elders_changed", res |-> "Failed", out |-> None]
    /\ UNCHANGED << handles, finalized >>
    /\ UNCHANGED << mapvars, dvars, mpidvars >>

\* (mutant) the index of the Replica Info in use is overwritten in place.
KeySection_elders_changed_in_place(pks_ok, sks_ok, chain_ok, idx_ok, upd_ok) ==
    /\ routing.notified
    /\ IF pks_ok /\ sks_ok /\ chain_ok /\ idx_ok /\ upd_ok
       THEN /\ replicas' = Commit("transfers",
                                  [Replica("transfers") EXCEPT
                                      !.info = ReplicaInfo(public_key_set(routing),
                                                           secret_key_share(routing),
                                                           our_index(routing),
                                                           our_history(routing))])
            /\ routing' = [routing EXCEPT !.notified = FALSE]
            /\ last' = [op |-> "elders_changed", res |-> "Swapped", out |-> None]
       ELSE /\ UNCHANGED << replicas, routing >>
            /\ last' = [op |-> "elders_changed", res |-> "Failed", out |-> None]
    /\ UNCHANGED << handles, finalized >>
    /\ UNCHANGED << mapvars, dvars, mpidvars >>

\* (mutant) the index handed to the replica is the one it already has.
KeySection_elders_changed_old_index(pks_ok, sks_ok, chain_ok, idx_ok, upd_ok) ==
    /\ routing.notified
    /\ IF pks_ok /\ sks_ok /\ chain_ok /\ idx_ok /\ upd_ok
       THEN /\ replicas' = Commit("transfers",
                                  update_replica_on_churn(Replica("transfers"),
                                                          public_key_set(routing),
                                                          secret_key_share(routing),
                                                          Replica("transfers").info.our_index,
                                                          our_history(routing)))
            /\ routing' = [routing EXCEPT !.notified = FALSE]
            /\ last' = [op |-> "elders_changed", res |-> "Swapped", out |-> None]
       ELSE /\ UNCHANGED << replicas, routing >>
            /\ last' = [op |-> "elders_changed", res |-> "Failed", out |-> None]
    /\ UNCHANGED << handles, finalized >>
    /\ UNCHANGED << mapvars, dvars, mpidvars >>

\* KeySection::elders_changed: four fetches from routing, each of which may
\* fail, then update_replica_on_churn; every path returns None.
KeySection_elders_changed(pks_ok, sks_ok, chain_ok, idx_ok, upd_ok) ==
    /\ routing.notified
    /\ IF pks_ok /\ sks_ok /\ chain_ok /\ idx_ok /\ upd_ok
       THEN /\ replicas' = Commit("transfers",
                                  update_replica_on_churn(Replica("transfers"),
                                                          public_key_set(routing),
                                                          secret_key_share(routing),
                                                          our_index(routing),
                                                          our_history(routing)))
            /\ routing' = [routing EXCEPT !.notified = FALSE]
            /\ last' = [op |-> "elders_changed", res |-> "Swapped", out |-> None]
       ELSE /\ UNCHANGED << replicas, routing >>
            /\ last' = [op |-> "elders_changed", res |-> "Failed", out |-> None]
    /\ UNCHANGED << handles, finalized >>
    /\ UNCHANGED << mapvars, dvars, mpidvars >>

\* ------------------------------------------------------------------ split
\* (mutant) the section of prefix <<0>> is seeded with every account.
SeedAccounts_overlapping(sec, q) ==
    { a \in sec.accounts : IsPrefixOf(q, a) \/ q = <<0>> }

SeedAccounts(sec, q) == { a \in sec.accounts : IsPrefixOf(q, a) }

\* (mutant) the Replicas of the resulting sections accept writes at once.
SplitReplica_no_catchup(r) ==
    [r EXCEPT !.sect = [q \in Prefixes |->
                          IF q = RootPrefix THEN NoSection
                          ELSE SeededSection(SeedAccounts(r.sect[RootPrefix], q),
                                             r.sect[RootPrefix].ledger)]]

\* Section split: one Replica per resulting section, seeded with the ledgers
\* of the accounts under its prefix; the node has to catch up before it
\* accepts new writes.
SplitReplica(r) ==
    [r EXCEPT !.catchup_pending = TRUE,
              !.sect = [q \in Prefixes |->
                          IF q = RootPrefix THEN NoSection
                          ELSE SeededSection(SeedAccounts(r.sect[RootPrefix], q),
                                             r.sect[RootPrefix].ledger)]]

SectionSplit ==
    /\ Active(RootPrefix)
    /\ replicas' = Commit("transfers", SplitReplica(Replica("transfers")))
    /\ last' = [op |-> "split", res |-> "Ok", out |-> None]
    /\ UNCHANGED << routing, handles, finalized >>
    /\ UNCHANGED << mapvars, dvars, mpidvars >>

\* catchup_with_replicas: the peer Elders are asked for missing history.
catchup_with_replicas(ok) ==
    /\ Replica("transfers").catchup_pending
    /\ replicas' = IF ok
                   THEN Commit("transfers",
                               [Replica("transfers") EXCEPT !.catchup_pending = FALSE])
                   ELSE replicas
    /\ last' = [op |-> "catchup", res |-> IF ok THEN "CaughtUp" ELSE "Failed",
                out |-> None]
    /\ UNCHANGED << routing, handles, finalized >>
    /\ UNCHANGED << mapvars, dvars, mpidvars >>

\* ================================================================ claims
\* The Elder's replica, and a transfer's slot in the Replica of section p.
Elder == Replica("transfers")
SlotOf(r, p, t) == r.sect[p].pending[Key(t)]
Awaits(r, p, t) == SlotOf(r, p, t).st = "Awaiting" /\ SlotOf(r, p, t).transfer = Some(t)

\* C1: whenever a proposal is accepted (the Replica issues its validation
\* share), the slot of its sender and sequence number was free at every
\* handle of the Replica: of two proposals for the same account that both
\* carry 'last finalized + 1', at most one is accepted.
C1_OneAcceptedProposalPerSlot ==
    [][ \A p \in Prefixes, h \in Handles, t \in SignedTransfers :
          (KeySection_process_propose(p, h, t) /\ last'.res = "Validated")
            => \A g \in Handles : SlotOf(Replica(g), p, t).st = "Idle" ]_vars

\* C1 witness: a proposal for the next sequence number was turned down
\* because another transfer holds that slot.
C1_Witness ==
    /\ last.op = "propose" /\ last.res = "OrderingError:Pending"
    /\ \E p \in Prefixes, t \in SignedTransfers :
          /\ t.seq <= MaxSeq /\ Awaits(Elder, p, t)
          /\ t.seq = LastSeq(Elder.sect[p], t.from) + 1

\* C2: no two different transfers with the same sender and sequence number
\* are ever both finalized, and every ledger entry is a finalized transfer.
C2_NoConflictingFinalized ==
    /\ \A f1, f2 \in finalized :
          (f1.transfer.from = f2.transfer.from /\ f1.transfer.seq = f2.transfer.seq)
            => f1.transfer = f2.transfer
    /\ \A o \in ObjIds, p \in Prefixes, a \in Accounts :
          \A i \in DOMAIN replicas[o].sect[p].ledger[a] :
              replicas[o].sect[p].ledger[a][i] \in finalized

\* C2 witness: transfers were finalized before and after a churn, and the
\* section has split.
C2_Witness ==
    /\ \E f1, f2 \in finalized : f1.index = 0 /\ f2.index = 1
    /\ Elder.sect[<<0>>].active /\ Elder.sect[<<1>>].active

\* C3: a validly signed proposal for an account of a Replica that accepts
\* writes is rejected with an ordering error, the state unchanged, when its
\* sequence number is not N+1; with N+1 it is accepted when the slot is free
\* and is not accepted again when the same proposal is delivered once more.
\* The reward payout proposes N+1 and is accepted once in the same way.
C3_StrictOrdering ==
    [][ /\ \A p \in Prefixes, h \in Handles, t \in SignedTransfers :
            LET r == Replica(h)
                n == LastSeq(r.sect[p], t.from)
            IN (KeySection_process_propose(p, h, t) /\ t.sig /\ ~r.catchup_pending) =>
                 /\ t.seq # n + 1 =>
                      /\ replicas' = replicas
                      /\ IsOrderingError(last'.res) /\ last'.out = Some("CmdError")
                 /\ (t.seq = n + 1 /\ Awaits(r, p, t)) =>
                      /\ replicas' = replicas
                      /\ last'.res = "AlreadyProposed" /\ last'.out = None
                 /\ (t.seq = n + 1 /\ SlotOf(r, p, t).st = "Idle") =>
                      /\ last'.res = "Validated"
                      /\ replicas'[handles[h]].sect[p].pending[Key(t)] =
                            [st |-> "Awaiting", transfer |-> Some(t), shares |-> {}]
        /\ \A p \in Prefixes, amount \in 1..MaxAmount, to \in Accounts :
            LET r == Replica(ActorHandle)
                t == [from |-> ActorId(p), to |-> to, amount |-> amount,
                      seq |-> LastSeq(r.sect[p], ActorId(p)) + 1, sig |-> TRUE]
            IN SectionFunds_initiate_reward_payout(p, amount, to) =>
                 IF SlotOf(r, p, t).st = "Idle" /\ ~r.catchup_pending
                 THEN /\ last'.out = Some("InitiateRewardPayout")
                      /\ replicas'[handles[ActorHandle]].sect[p].pending[Key(t)] =
                            [st |-> "Awaiting", transfer |-> Some(t), shares |-> {}]
                 ELSE replicas' = replicas /\ last'.out = None ]_vars

\* C3 witness: a proposal was rejected as out of order at an account that
\* has a finalized transfer.
C3_Witness ==
    /\ last.op = "propose" /\ last.res = "OrderingError"
    /\ \E p \in Prefixes, a \in Accounts : LastSeq(Elder.sect[p], a) >= 1

\* What SectionFunds::receive(v) at section p is about to do with v.
Taken(p, v) ==
    /\ v.index = Elder.info.our_index
    /\ Awaits(Elder, p, v.transfer)
    /\ \A s \in SlotOf(Elder, p, v.transfer).shares : s.elder # v.elder
SharesWith(p, v) ==
    SlotOf(Elder, p, v.transfer).shares \cup { [elder |-> v.elder, index |-> v.index] }
ReachesThreshold(p, v) ==
    /\ Taken(p, v)
    /\ Cardinality(SharesUnder(SharesWith(p, v), v.index)) >= Threshold
IsFinalized(t) == \E f \in finalized : f.transfer = t

\* C4: a validation finalizes its transfer exactly when it is taken and
\* brings the shares under the Replica's index to the threshold; otherwise
\* nothing is finalized and receive returns nothing. A transfer is finalized
\* by no other step, and a transfer that awaits validations has fewer than
\* Threshold shares.
C4_FinalizedIffThreshold ==
    /\ [](\A p \in Prefixes, k \in Keys :
            Elder.sect[p].pending[k].st = "Awaiting"
              => Cardinality(Elder.sect[p].pending[k].shares) < Threshold)
    /\ [][ /\ \A p \in Prefixes, v \in Validations :
                SectionFunds_receive(p, v) =>
                  IF ReachesThreshold(p, v)
                  THEN /\ ~IsFinalized(v.transfer)
                       /\ finalized' = finalized \cup
                                         { [transfer |-> v.transfer, index |-> v.index] }
                       /\ last'.out = Some("FinaliseRewardPayout")
                  ELSE /\ finalized' = finalized
                       /\ last'.out = None
           /\ finalized' # finalized =>
                \E p \in Prefixes, v \in Validations : SectionFunds_receive(p, v) ]_vars

\* C4 witness: the validation that completed the threshold was received.
C4_Witness ==
    /\ last = [op |-> "receive", res |-> "Finalized", out |-> Some("FinaliseRewardPayout")]
    /\ finalized # {}

\* C5: once the Replica has rotated to the membership layer's index, a
\* validation produced under an earlier index is dropped: receive changes
\* nothing, finalizes nothing, and returns neither a message nor an error.
C5_StaleValidationDropped ==
    [][ \A p \in Prefixes, v \in Validations :
          (SectionFunds_receive(p, v) /\ ~routing.notified /\ v.index < routing.index) =>
             /\ replicas' = replicas
             /\ finalized' = finalized
             /\ last' = [op |-> "receive", res |-> "StaleDropped", out |-> None] ]_vars

\* C5 witness: with a transfer proposed under index 1 awaiting validations,
\* a validation of an earlier index was dropped.
C5_Witness ==
    /\ last.op = "receive" /\ last.res = "StaleDropped"
    /\ Elder.info.our_index = 1 /\ routing.index = 1
    /\ \E p \in Prefixes, k \in Keys : Elder.sect[p].pending[k].st = "Awaiting"

\* C6: a validation from an Elder whose share is already in the pending set,
\* and any validation for a transfer that is already finalized, is a no-op:
\* the Replica is unchanged, no proof is added or replaced, and receive
\* returns neither an announcement nor an error.
C6_RedeliveryIsNoOp ==
    [][ \A p \in Prefixes, v \in Validations :
          (/\ SectionFunds_receive(p, v)
           /\ \/ IsFinalized(v.transfer)
              \/ /\ Awaits(Elder, p, v.transfer)
                 /\ \E s \in SlotOf(Elder, p, v.transfer).shares : s.elder = v.elder) =>
             /\ replicas' = replicas
             /\ finalized' = finalized
             /\ last'.out = None
             /\ last'.res \in { "AlreadySeen", "AlreadyFinalized", "StaleDropped" } ]_vars

\* C6 witness: a validation arrived for a transfer that was already finalized.
C6_Witness ==
    /\ last.op = "receive" /\ last.res = "AlreadyFinalized"
    /\ finalized # {}

\* The entries of a ledger, and the finalized transfers that touch account a.
Entries(led) == { led[i] : i \in DOMAIN led }
Touching(a) == { f \in finalized : f.transfer.from = a \/ f.transfer.to = a }
HasSplit == \A q \in ChildPrefixes : Elder.sect[q].active

\* C7: after a split every account is held by exactly one of the two
\* resulting Replicas, which holds all of the account's ledger entries; the
\* other one holds none of them. The split itself moves every ledger whole.
C7_SplitPartition ==
    /\ [](HasSplit =>
            \A a \in Accounts :
               \E q \in ChildPrefixes :
                  /\ a \in Elder.sect[q].accounts
                  /\ Entries(Elder.sect[q].ledger[a]) = Touching(a)
                  /\ \A q2 \in ChildPrefixes \ {q} :
                        /\ a \notin Elder.sect[q2].accounts
                        /\ Elder.sect[q2].ledger[a] = << >>)
    /\ [][ SectionSplit =>
             \A a \in Accounts :
                \E q \in ChildPrefixes :
                   replicas'[handles["transfers"]].sect[q].ledger[a]
                      = Elder.sect[RootPrefix].ledger[a] ]_vars

\* C7 witness: the section has just split, and both accounts came with
\* ledger entries.
C7_Witness ==
    /\ HasSplit /\ last.op = "split"
    /\ \A a \in Accounts : \E q \in ChildPrefixes : Elder.sect[q].ledger[a] # << >>

\* The balance of account a: the replay of its ledger at the Replica that
\* holds it.
Holder(a) == CHOOSE p \in Prefixes : Elder.sect[p].active /\ a \in Elder.sect[p].accounts
Balance(a) == Replay(Elder.sect[Holder(a)].ledger[a], a)
BalanceNext(a) ==
    LET e == replicas'[handles'["transfers"]]
        p == CHOOSE q \in Prefixes : e.sect[q].active /\ a \in e.sect[q].accounts
    IN Replay(e.sect[p].ledger[a], a)
LastSeqNext(a) ==
    LET e == replicas'[handles'["transfers"]]
        p == CHOOSE q \in Prefixes : e.sect[q].active /\ a \in e.sect[q].accounts
    IN LastSeq(e.sect[p], a)
RECURSIVE SumOver(_, _)
SumOver(S, f) ==
    IF S = {} THEN 0
    ELSE LET x == CHOOSE y \in S : TRUE IN f[x] + SumOver(S \ {x}, f)
HistoryBalance(a) ==
    GenesisBalance
      + SumOver({ f \in finalized : f.transfer.to = a }, [f \in finalized |-> f.transfer.amount])
      - SumOver({ f \in finalized : f.transfer.from = a }, [f \in finalized |-> f.transfer.amount])

\* C9: the balance replayed from an account's ledger is the balance that
\* the finalized transfers imply. The step that finalizes a transfer of x
\* with sequence N+1 takes x from the sender, gives x to the recipient,
\* leaves the total unchanged and makes N+2 the sender's next sequence;
\* no other step changes a balance.
C9_BalanceIsLedgerReplay ==
    /\ [](\A a \in Accounts : Balance(a) = HistoryBalance(a))
    /\ [][ IF finalized' # finalized
           THEN \E f \in finalized' \ finalized :
                  LET t == f.transfer IN
                  /\ finalized' = finalized \cup {f}
                  /\ t.seq = LastSeq(Elder.sect[Holder(t.from)], t.from) + 1
                  /\ BalanceNext(t.from) = Balance(t.from) - t.amount
                  /\ BalanceNext(t.to) = Balance(t.to) + t.amount
                  /\ BalanceNext(t.from) + BalanceNext(t.to) = Balance(t.from) + Balance(t.to)
                  /\ \A a \in Accounts \ {t.from, t.to} : BalanceNext(a) = Balance(a)
                  /\ LastSeqNext(t.from) + 1 = t.seq + 1
                  /\ LastSeqNext(t.from) = LastSeq(Elder.sect[Holder(t.from)], t.from) + 1
           ELSE \A a \in Accounts : BalanceNext(a) = Balance(a) ]_vars

\* C9 witness: transfers in both directions are finalized and the balances
\* differ from the genesis balance.
C9_Witness ==
    /\ \E f, g \in finalized : f.transfer.from = g.transfer.to /\ f.transfer.to = g.transfer.from
    /\ \E a \in Accounts : Balance(a) < GenesisBalance
    /\ \E a \in Accounts : Balance(a) > GenesisBalance

\* C10: every share of a transfer that awaits validations was accepted
\* under the Replica Info in use, so a swap leaves no share of the earlier
\* index behind to be combined with later ones; a proof is produced only
\* under the index of the Replica Info in use at that step, and a swap
\* finalizes nothing.
C10_SwapNeverInterleaves ==
    /\ [](\A p \in Prefixes, k \in Keys :
            \A s \in Elder.sect[p].pending[k].shares : s.index = Elder.info.our_index)
    /\ [][ /\ \A f \in finalized' \ finalized :
                /\ f.index = Elder.info.our_index
                /\ replicas'[handles'["transfers"]].info = Elder.info
           /\ replicas'[handles'["transfers"]].info # Elder.info =>
                /\ finalized' = finalized
                /\ \A p \in Prefixes, k \in Keys :
                      replicas'[handles'["transfers"]].sect[p].pending[k] = IdleSlot ]_vars

\* C10 witness: proofs were produced under index 0 before the swap and
\* under index 1 after it.
C10_Witness ==
    /\ Elder.info.our_index = 1
    /\ \E f \in finalized : f.index = 0
    /\ \E f \in finalized : f.index = 1
    /\ last.res = "Finalized"

\* The Replica after receive_validation(v) at section p.
ReceiveApply(r, p, v) ==
    LET res == ReplicaReceive(r, p, v)
    IN IF res.tag = "OkSome" THEN ApplyTransferValidationReceived(r, p, res.event) ELSE r
ElderNext == replicas'[handles'["transfers"]]

\* C11: from every state, two validations for one transfer leave the
\* Replica in the same state (slot, ledgers and proof) whichever of them is
\* received first; receive is the step that applies them.
C11_ArrivalOrderIrrelevant ==
    /\ [](\A p \in Prefixes, v1, v2 \in Validations :
            (v1.transfer = v2.transfer /\ Active(p) /\ IsPrefixOf(p, v1.transfer.from)) =>
               ReceiveApply(ReceiveApply(Elder, p, v1), p, v2)
                 = ReceiveApply(ReceiveApply(Elder, p, v2), p, v1))
    /\ [][ \A p \in Prefixes, v \in Validations :
             SectionFunds_receive(p, v) => ElderNext = ReceiveApply(Elder, p, v) ]_vars

\* C11 witness: one share is held for a transfer and the validations of two
\* other Elders are outstanding, either of which completes the threshold.
C11_Witness ==
    /\ last.op = "receive" /\ last.res = "Accumulated"
    /\ \E p \in Prefixes, k \in Keys :
          /\ Elder.sect[p].pending[k].st = "Awaiting"
          /\ Cardinality(Elder.sect[p].pending[k].shares) = Threshold - 1
          /\ Cardinality(Elders) - Cardinality(Elder.sect[p].pending[k].shares) >= 2

LedgerOf(a) == Elder.sect[Holder(a)].ledger[a]
LedgerOfNext(a) ==
    LET p == CHOOSE q \in Prefixes : ElderNext.sect[q].active /\ a \in ElderNext.sect[q].accounts
    IN ElderNext.sect[p].ledger[a]
IsPrefixSeq(s1, s2) == Len(s1) <= Len(s2) /\ \A i \in DOMAIN s1 : s1[i] = s2[i]

\* C13: in every step the ledger of every account before the step is a
\* prefix of its ledger after the step, at the Replica that holds the
\* account and, unless the step is the split that hands the ledger on, at
\* every Replica.
C13_LedgerAppendOnly ==
    [][ /\ \A a \in Accounts : IsPrefixSeq(LedgerOf(a), LedgerOfNext(a))
        /\ \A p \in Prefixes, a \in Accounts :
              \/ IsPrefixSeq(Elder.sect[p].ledger[a], ElderNext.sect[p].ledger[a])
              \/ /\ SectionSplit
                 /\ p = RootPrefix
                 /\ LedgerOfNext(a) = Elder.sect[p].ledger[a] ]_vars

\* C13 witness: an account's ledger holds two entries after the churn swap
\* to index 1 and the split.
C13_Witness ==
    /\ HasSplit /\ Elder.info.our_index = 1
    /\ \E a \in Accounts : Len(LedgerOf(a)) >= 2

AllFlags == BOOLEAN \X BOOLEAN \X BOOLEAN \X BOOLEAN \X BOOLEAN
FreshInfo ==
    ReplicaInfo(public_key_set(routing), secret_key_share(routing),
                our_index(routing), our_history(routing))

\* C14: elders_changed installs the Replica Info built from the four values
\* it has just fetched when all of them (and the update) succeed, and leaves
\* the Replica as it is otherwise; no other step changes the Replica Info,
\* so its four values always come from one fetch.
C14_ReplicaInfoSwappedWhole ==
    /\ [](\E i \in 0..MaxIndex : Elder.info = ReplicaInfo(i, i, i, i))
    /\ [][ /\ \A f \in AllFlags :
                KeySection_elders_changed(f[1], f[2], f[3], f[4], f[5]) =>
                   IF f[1] /\ f[2] /\ f[3] /\ f[4] /\ f[5]
                   THEN ElderNext.info = FreshInfo
                   ELSE ElderNext = Elder
           /\ ElderNext.info # Elder.info =>
                \E f \in AllFlags : KeySection_elders_changed(f[1], f[2], f[3], f[4], f[5]) ]_vars

\* C14 witness: a fetch failed after the membership layer moved to index 1,
\* and the Replica Info of index 0 is still in use.
C14_Witness ==
    /\ last.op = "elders_changed" /\ last.res = "Failed"
    /\ routing.index = 1
    /\ Elder.info = ReplicaInfo(0, 0, 0, 0)

\* C15 as stated: when the key set or the proof chain cannot be obtained,
\* elders_changed produces an observable outcome.
C15_FailureReported ==
    [][ \A f \in AllFlags :
          (KeySection_elders_changed(f[1], f[2], f[3], f[4], f[5]) /\ ~(f[1] /\ f[3])) =>
             last'.out # None ]_vars

Occupied(address) == chunks[address] # None
Stored(address) == chunks[address][1]
\* The origin is not the owner and holds no permission for the action.
Lacks(map, action, origin) ==
    /\ origin # map.owner
    /\ \/ map.permissions[origin] = None
       \/ action \notin map.permissions[origin][1]

\* C17: MapWrite::New at an occupied address answers the origin with
\* DataExists, whatever the chunk store would do, and leaves the store as it
\* was: a Get by the owner afterwards returns the Map stored before.
C17_CreateOnOccupiedAddress ==
    [][ \A w \in MapWrites, msg_id \in MsgIds, origin \in Users, fault \in StoreFaults :
          (/\ w.kind = "New"
           /\ Occupied(w.data.address)
           /\ MapStorage_write(w, msg_id, origin, fault = "get", fault = "put")) =>
             /\ mresp' = Some([msg |-> "CmdError", kind |-> "Data",
                               result |-> NdErr("DataExists"),
                               correlation_id |-> msg_id, dst |-> origin])
             /\ chunks' = chunks
             /\ get(chunks', w.data.address, msg_id, Stored(w.data.address).owner, FALSE)[1].result
                  = NdOk(Stored(w.data.address)) ]_vars

\* C17 witness: a create was refused with DataExists at an address whose
\* Map has since had its permissions changed.
C17_Witness ==
    /\ mresp # None /\ mresp[1].result.err = "DataExists"
    /\ \E a \in MapAddresses : Occupied(a) /\ Stored(a).version = 1

\* C18: a read, and a write other than New, at an address without a chunk
\* is answered with NoSuchData and leaves the chunk store as it was.
C18_MissingAddress ==
    [][ /\ \A r \in MapReads, msg_id \in MsgIds, origin \in Users, fault \in BOOLEAN :
             (~Occupied(r.address) /\ MapStorage_read(r, msg_id, origin, fault)) =>
                /\ mresp' # None
                /\ mresp'[1].result = NdErr("NoSuchData")
                /\ chunks' = chunks
        /\ \A w \in MapWrites, msg_id \in MsgIds, origin \in Users, fault \in StoreFaults :
             (/\ w.kind # "New"
              /\ ~Occupied(AddressOf(w))
              /\ MapStorage_write(w, msg_id, origin, fault = "get", fault = "put")) =>
                /\ mresp' = Some([msg |-> "CmdError", kind |-> "Data",
                                  result |-> NdErr("NoSuchData"),
                                  correlation_id |-> msg_id, dst |-> origin])
                /\ chunks' = chunks ]_vars

\* C18 witness: a write at an address without a chunk was answered with
\* NoSuchData.
C18_Witness ==
    /\ mresp # None
    /\ mresp[1].msg = "CmdError" /\ mresp[1].result.err = "NoSuchData"
    /\ \E a \in MapAddresses : ~Occupied(a)

\* The MapAction a write needs; a delete needs ownership instead.
NeededAction(w) ==
    CASE w.kind \in { "SetUserPermissions", "DelUserPermissions" } -> "ManagePermissions"
      [] w.kind = "Edit" -> "Insert"
      [] OTHER -> "Owner"
Unauthorized(w, origin) ==
    IF w.kind = "Delete" THEN origin # Stored(w.address).owner
    ELSE Lacks(Stored(w.address), NeededAction(w), origin)

\* C19: with the chunk readable from the store, a read by an origin without
\* Read, a permissions change without ManagePermissions, an edit without
\* the entry permission and a delete by a non-owner are answered with
\* AccessDenied, carry no data, and leave the chunk store as it was.
C19_PermissionDenied ==
    [][ /\ \A r \in MapReads, msg_id \in MsgIds, origin \in Users :
             (/\ Occupied(r.address)
              /\ Lacks(Stored(r.address), "Read", origin)
              /\ MapStorage_read(r, msg_id, origin, FALSE)) =>
                /\ mresp' # None
                /\ mresp'[1].result = NdErr("AccessDenied")
                /\ mresp'[1].result.val = None
                /\ chunks' = chunks
        /\ \A w \in MapWrites, msg_id \in MsgIds, origin \in Users :
             (/\ w.kind # "New"
              /\ Occupied(AddressOf(w))
              /\ Unauthorized(w, origin)
              /\ MapStorage_write(w, msg_id, origin, FALSE, FALSE)) =>
                /\ mresp' = Some([msg |-> "CmdError", kind |-> "Data",
                                  result |-> NdErr("AccessDenied"),
                                  correlation_id |-> msg_id, dst |-> origin])
                /\ chunks' = chunks ]_vars

\* C19 witness: a read was refused with AccessDenied on a Map in which a
\* user other than the owner holds permissions without Read.
C19_Witness ==
    /\ mresp # None
    /\ mresp[1].msg = "QueryResponse" /\ mresp[1].result.err = "AccessDenied"
    /\ \E a \in MapAddresses, u \in Users :
          /\ Occupied(a) /\ u # Stored(a).owner
          /\ Stored(a).permissions[u] = Some({})

\* The QueryResponse variant that answers each MapRead variant.
ResponseKind(kind) ==
    CASE kind = "Get" -> "GetMap"
      [] kind = "GetValue" -> "GetMapValue"
      [] kind = "GetShell" -> "GetMapShell"
      [] kind = "GetVersion" -> "GetMapVersion"
      [] kind = "ListEntries" -> "ListMapEntries"
      [] kind = "ListKeys" -> "ListMapKeys"
      [] kind = "ListValues" -> "ListMapValues"
      [] kind = "ListPermissions" -> "ListMapPermissions"
      [] kind = "ListUserPermissions" -> "ListMapUserPermissions"

\* C20: whatever the chunk store holds, a read returns one QueryResponse,
\* of the variant that answers the read's variant, with the request's
\* message id as correlation id; a write returns nothing or a message with
\* the request's message id as correlation id.
C20_CorrelationId ==
    /\ \A r \in MapReads, msg_id \in MsgIds, origin \in Users, fault \in BOOLEAN :
          LET out == read(chunks, r, msg_id, origin, fault)
          IN /\ out # None
             /\ out[1].msg = "QueryResponse"
             /\ out[1].kind = ResponseKind(r.kind)
             /\ out[1].correlation_id = msg_id
    /\ \A w \in MapWrites, msg_id \in MsgIds, origin \in Users, fault \in StoreFaults :
          LET out == write(chunks, w, msg_id, origin, fault = "get", fault = "put").out
          IN out = None \/ out[1].correlation_id = msg_id

\* C20 witness: a Get with message id 2 was answered with the stored Map.
C20_Witness ==
    /\ mresp # None
    /\ mresp[1].kind = "GetMap" /\ mresp[1].correlation_id = 2 /\ mresp[1].result.ok

\* The write cannot succeed: the address is taken (New) or empty (others),
\* the chunk store fails, the origin is not entitled, or the Map refuses
\* the change.
Refused(w) ==
    LET map == Stored(w.address) IN
    CASE w.kind = "SetUserPermissions" -> w.version # map.version + 1
      [] w.kind = "DelUserPermissions" ->
            w.version # map.version + 1 \/ map.permissions[w.user] = None
      [] w.kind = "Edit" -> map.entries[w.key] # None
      [] OTHER -> FALSE
WriteFails(w, origin, fault) ==
    IF w.kind = "New" THEN Occupied(w.data.address) \/ fault = "put"
    ELSE \/ ~Occupied(w.address)
         \/ fault # "none"
         \/ Unauthorized(w, origin)
         \/ Refused(w)
FaultHits(w, origin, fault) ==
    IF w.kind = "New" THEN ~Occupied(w.data.address) /\ fault = "put"
    ELSE /\ Occupied(w.address)
         /\ \/ fault = "get"
            \/ fault = "put" /\ ~Unauthorized(w, origin) /\ ~Refused(w)

\* C21: whatever the chunk store holds, a write that fails returns one
\* CmdError::Data for the origin with the request's message id and leaves
\* the store as it was, a chunk store fault being reported as a generic
\* error; a write that succeeds returns no message.
C21_FailedWriteReported ==
    \A w \in MapWrites, msg_id \in MsgIds, origin \in Users, fault \in StoreFaults :
       LET done == write(chunks, w, msg_id, origin, fault = "get", fault = "put")
       IN IF WriteFails(w, origin, fault)
          THEN /\ done.out # None
               /\ done.out[1].msg = "CmdError" /\ done.out[1].kind = "Data"
               /\ ~done.out[1].result.ok
               /\ done.out[1].correlation_id = msg_id
               /\ done.out[1].dst = origin
               /\ FaultHits(w, origin, fault) =>
                     done.out[1].result.err = "ChunkStore error"
               /\ done.chunks = chunks
          ELSE /\ done.out = None
               /\ done.chunks # chunks

\* C21 witness: a write on a stored Map failed on a chunk store fault and
\* the origin was sent the generic data error.
C21_Witness ==
    /\ mresp # None
    /\ mresp[1].msg = "CmdError" /\ mresp[1].result.err = "ChunkStore error"
    /\ \E a \in MapAddresses : Occupied(a)

\* ---------------------------------------------------------- dispatch claims
Duty == dispatched.duty[1]
IsSubSeq(short, long) ==
    Len(short) <= Len(long) /\ \A i \in DOMAIN short : short[i] = long[i]
EvaluateCalls ==
    << "auth.verify_client_signature", "auth.authorise_app", "msg_analysis.evaluate" >>

\* C22: for a client envelope the checks run in the order signature, app
\* authorisation, analysis, each only after the ones before it have passed:
\* a bad signature returns the signature error after the first call, an
\* app that is not authorised returns the authorisation error after the
\* second, and the analysis is reached, and decides the result, only when
\* both have passed.
C22_ChecksBeforeClassification ==
    (dispatched.duty # None /\ Duty.kind = "EvaluateClientMsg") =>
       /\ IsSubSeq(dispatched.calls, EvaluateCalls)
       /\ IF ~Duty.msg.sig_ok
          THEN /\ dispatched.calls = << "auth.verify_client_signature" >>
               /\ dispatched.out = Some([op |-> "Error", error |-> "InvalidSignature",
                                         msg_id |-> Duty.msg.id])
          ELSE IF Duty.public_id.kind = "App" /\ ~Duty.authorised
          THEN /\ dispatched.calls
                    = << "auth.verify_client_signature", "auth.authorise_app" >>
               /\ dispatched.out = Some([op |-> "Error", error |-> "AccessDenied",
                                         msg_id |-> Duty.msg.id])
          ELSE /\ dispatched.calls = EvaluateCalls
               /\ dispatched.out = msg_analysis_evaluate(Duty.msg)

\* C22 witness: the envelope of an app that is not authorised, with a valid
\* signature, was turned away.
C22_Witness ==
    /\ dispatched.duty # None
    /\ Duty.kind = "EvaluateClientMsg" /\ Duty.msg.sig_ok
    /\ Duty.public_id.kind = "App" /\ ~Duty.authorised
    /\ dispatched.out # None /\ dispatched.out[1].error = "AccessDenied"

\* The one component each duty variant is handed to.
HandlerOf(kind) ==
    CASE kind = "RunAsAuth" -> "auth.process"
      [] kind = "RunAsGateway" -> "gateway.process"
      [] kind = "RunAsPayment" -> "payments.process"
      [] kind = "RunAsTransfers" -> "transfers.process"
      [] kind = "AdultReceive" -> "chunks.receive_msg"

\* C23: a duty is handed to exactly one handler and what it returns is at
\* most one operation: a RunAs duty and an Adult's envelope go to their
\* component in one call, a group decision calls no component and becomes
\* one AuthDuty::Process with the decision's cmd, msg_id and origin, and a
\* client envelope ends in at most one call to the analysis.
C23_OneDutyPerDispatch ==
    dispatched.duty # None =>
       /\ dispatched.out = None \/ Len(dispatched.out) = 1
       /\ CASE Duty.kind = "ProcessGroupDecision" ->
                 /\ dispatched.calls = << >>
                 /\ dispatched.out = Some([op |-> "AuthDuty::Process",
                                           cmd |-> Duty.decision.cmd,
                                           msg_id |-> Duty.decision.msg_id,
                                           origin |-> Duty.decision.origin])
            [] Duty.kind = "EvaluateClientMsg" ->
                 Cardinality({ i \in DOMAIN dispatched.calls :
                                  dispatched.calls[i] = "msg_analysis.evaluate" }) <= 1
            [] OTHER -> dispatched.calls = << HandlerOf(Duty.kind) >>

\* C23 witness: a group decision with message id 2 became an
\* AuthDuty::Process.
C23_Witness ==
    /\ dispatched.duty # None
    /\ Duty.kind = "ProcessGroupDecision" /\ Duty.decision.msg_id = 2
    /\ dispatched.out # None /\ dispatched.out[1].op = "AuthDuty::Process"

\* C24: SectionFunds::receive returns FinaliseRewardPayout exactly for the
\* validation that completes the threshold; a validation taken before that
\* is applied to the actor, which holds one share more afterwards, and
\* nothing is returned. No other handler returns FinaliseRewardPayout.
C24_AnnouncedOnlyOnProof ==
    [][ /\ \A p \in Prefixes, v \in Validations :
             SectionFunds_receive(p, v) =>
                /\ (last'.out = Some("FinaliseRewardPayout")) = ReachesThreshold(p, v)
                /\ (Taken(p, v) /\ ~ReachesThreshold(p, v)) =>
                      /\ SlotOf(ElderNext, p, v.transfer).shares = SharesWith(p, v)
                      /\ Awaits(ElderNext, p, v.transfer)
                      /\ last'.out = None
        /\ (last'.out = Some("FinaliseRewardPayout") /\ last' # last) =>
              \E p \in Prefixes, v \in Validations : SectionFunds_receive(p, v) ]_vars

\* C24 witness: a validation was applied that left the transfer one share
\* short of the threshold, and nothing was returned.
C24_Witness ==
    /\ last = [op |-> "receive", res |-> "Accumulated", out |-> None]
    /\ \E p \in Prefixes, k \in Keys :
          /\ Elder.sect[p].pending[k].st = "Awaiting"
          /\ Cardinality(Elder.sect[p].pending[k].shares) = Threshold - 1

\* C25 as stated: when the actor refuses a payout or a validation with an
\* error, the handler writes the error to the log.
C25_ErrorLogged ==
    [][ /\ \A p \in Prefixes, amount \in 1..MaxAmount, to \in Accounts :
             (/\ SectionFunds_initiate_reward_payout(p, amount, to)
              /\ ActorTransfer(Elder, p, amount, to).tag = "Err") => logged' # logged
        /\ \A p \in Prefixes, v \in Validations :
             (/\ SectionFunds_receive(p, v)
              /\ ReplicaReceive(Elder, p, v).tag = "Err") => logged' # logged ]_vars

\* --------------------------------------------------------- MpidManager claims

WrapperOf(request) == deserialise("MpidMessageWrapper", request.content.data.value).val[1]
AllPuts == RequestsOf("Put", Kind({ "PutHeader", "PutMessage" }))
AllGets == RequestsOf("Post", Kind({ "GetMessage" }))
AllDeletes == RequestsOf("Delete", Kind({ "DeleteMessage" }))
Decodes(request) == request.content.data.value # Garbage

\* C26 as stated: no handler ends in a panic, whatever the request.
C26_NeverPanics == mpid.res # "Panic"

\* the chunk store that a put of this wrapper goes to
StoreFor(m, w) == IF w.kind = "PutHeader" THEN m.chunk_store_inbox ELSE m.chunk_store_outbox

\* the put was accepted: Ok was returned and the item is in its store
Accepted(handled, request) ==
    /\ handled.res = "Ok"
    /\ request.content.data.name \in DOMAIN StoreFor(handled.m, WrapperOf(request))

\* C27: a handle_put that is accepted sends, for a PutMessage, exactly one
\* Put request, from the manager to ClientManager(recipient), carrying
\* PutHeader(header) under the header's name with the request's id, and for
\* a PutHeader nothing; a Put request is sent in no other case.
C27_PutNotifiesRecipient ==
    \A request \in AllPuts, put_fault \in BOOLEAN :
        Decodes(request) =>
            LET handled == handle_put(Manager, request, put_fault)
                w == WrapperOf(request)
            IN  /\ (Accepted(handled, request) /\ w.kind = "PutMessage") =>
                      handled.sent = << [type |-> "Put", src |-> request.dst, dst |-> ClientManager(w.message.recipient), data |-> PlainData(MpidHeader_name(w.message.header), serialise("MpidMessageWrapper", [kind |-> "PutHeader", header |-> w.message.header])), id |-> request.content.id] >>
                /\ (Accepted(handled, request) /\ w.kind = "PutHeader") => handled.sent = << >>
                /\ (\E i \in DOMAIN handled.sent : handled.sent[i].type = "Put") =>
                      Accepted(handled, request) /\ w.kind = "PutMessage"

\* C27 witness: a message has been put and the one notification was sent.
C27_Witness ==
    /\ mpid = [op |-> "handle_put", res |-> "Ok", sent |-> << "Put" >>, wrote |-> TRUE]
    /\ DOMAIN chunk_store_outbox # {}

\* C28: a handle_put under a name that its store already holds returns
\* DataExists, sends nothing and leaves the manager as it was; a chunk of
\* that name in the other store alone does not make the put fail so.
C28_DataExists ==
    \A request \in AllPuts, put_fault \in BOOLEAN :
        Decodes(request) =>
            LET handled == handle_put(Manager, request, put_fault)
                w == WrapperOf(request)
            IN  IF request.content.data.name \in DOMAIN StoreFor(Manager, w)
                THEN handled = [m |-> Manager, res |-> "Client(DataExists)", sent |-> << >>]
                ELSE handled.res # "Client(DataExists)"

\* C28 witness: one name is stored in both stores, and a further put of it
\* was refused.
C28_Witness ==
    /\ mpid = [op |-> "handle_put", res |-> "Client(DataExists)", sent |-> << >>, wrote |-> FALSE]
    /\ DOMAIN chunk_store_inbox \cap DOMAIN chunk_store_outbox # {}

\* the message stored in the outbox under the header's name, for the
\* requester that is its recipient
FetchableBy(m, request) ==
    LET got == ChunkStore_get(m.chunk_store_outbox, MpidHeader_name(WrapperOf(request).header))
    IN  /\ got.ok
        /\ got.val[1][2].header = WrapperOf(request).header
        /\ got.val[1][2].recipient = request.src.name

\* C29: GetMessage(header) for a message that the outbox holds and whose
\* recipient is the requester returns Ok and sends exactly one Post request,
\* from the manager to the requester, carrying PutMessage(message) under the
\* message's name with the request's id, and nothing else.
C29_GetMessageDelivers ==
    \A request \in AllGets, order \in NameOrders :
        (Decodes(request) /\ FetchableBy(Manager, request)) =>
            LET handled == handle_post(Manager, request, order)
                mpid_message == chunk_store_outbox[MpidHeader_name(WrapperOf(request).header)][2]
            IN  /\ handled.res = "Ok"
                /\ handled.sent = << [type |-> "Post", src |-> request.dst, dst |-> request.src, data |-> PlainData(MpidHeader_name(mpid_message.header), serialise("MpidMessageWrapper", [kind |-> "PutMessage", message |-> mpid_message])), id |-> request.content.id] >>

\* C29 witness: a stored message has been fetched.
C29_Witness ==
    /\ mpid = [op |-> "handle_post", res |-> "Ok", sent |-> << "Post" >>, wrote |-> FALSE]
    /\ \E n \in DOMAIN chunk_store_outbox, a \in DOMAIN accounts : a = chunk_store_outbox[n][2].header.sender

\* a DeleteMessage of a stored message from a registered client of the
\* account it is sent to
DeletesStored(m, request) ==
    /\ request.dst.name \in DOMAIN m.accounts
    /\ Registered(m.accounts[request.dst.name], request.src)
    /\ WrapperOf(request).name \in DOMAIN m.chunk_store_outbox

\* C30: once a DeleteMessage from a registered client has been handled for
\* a stored message, a GetMessage for that message, from whomever, sends
\* exactly one PostFailure, from the manager to the requester, carrying the
\* request and an empty error indicator, and no Post request.
C30_DeletedIsGone ==
    \A request \in AllDeletes, overflow_checks \in BOOLEAN :
        (Decodes(request) /\ DeletesStored(Manager, request)) =>
            LET deleted == handle_delete(Manager, request, FALSE, overflow_checks)
            IN  deleted.res = "Ok" =>
                    \A later \in AllGets, order \in NameOrders :
                        (Decodes(later) /\ MpidHeader_name(WrapperOf(later).header) = WrapperOf(request).name) =>
                            handle_post(deleted.m, later, order) = [m |-> deleted.m, res |-> "Ok", sent |-> << [type |-> "PostFailure", src |-> later.dst, dst |-> later.src, request |-> later, external_error_indicator |-> << >>, id |-> later.content.id] >>]

\* C30 witness: a delete has taken a message out of the outbox store, which
\* is empty now, at a manager with a registered client (the inbox store, not
\* empty, is not what the delete changed).
C30_Witness ==
    /\ mpid = [op |-> "handle_delete", res |-> "Ok", sent |-> << >>, wrote |-> TRUE]
    /\ chunk_store_outbox = << >>
    /\ chunk_store_inbox # << >>
    /\ \E a \in DOMAIN accounts : accounts[a].clients # << >>

\* the header that has a given name, and the names an outbox query asks about
HeaderNamed(n) == CHOOSE h \in MpidHeaders : MpidHeader_name(h) = n
Range(s) == { s[i] : i \in DOMAIN s }
AllQueries == RequestsOf("Post", Kind({ "OutboxHas", "GetOutboxHeaders" }))
Queried(request) == IF WrapperOf(request).kind = "OutboxHas" THEN Range(WrapperOf(request).names) ELSE HeaderNames
ResponseKindOf(request) == IF WrapperOf(request).kind = "OutboxHas" THEN "OutboxHasResponse" ELSE "GetOutboxHeadersResponse"
IsClientOf(m, request) == request.dst.name \in DOMAIN m.accounts /\ Registered(m.accounts[request.dst.name], request.src)

\* the one response to an outbox query: a Post request from the manager to
\* the requester, under the manager's name and with the request's id, whose
\* wrapper lists each of the given headers once
RespondsWith(handled, request, headers) ==
    /\ handled.res = "Ok"
    /\ Len(handled.sent) = 1
    /\ \E listed \in NameSeqs :
          /\ Range(listed) = { MpidHeader_name(h) : h \in headers }
          /\ handled.sent[1] = [type |-> "Post", src |-> request.dst, dst |-> request.src, data |-> PlainData(request.dst.name, serialise("MpidMessageWrapper", [kind |-> ResponseKindOf(request), headers |-> [i \in DOMAIN listed |-> HeaderNamed(listed[i])]])), id |-> request.content.id]

AnyRequest(op) == RequestsOf(op, MpidMessageWrappers)
CarryId(handled, request) == \A i \in DOMAIN handled.sent : handled.sent[i].id = request.content.id

\* C32: whatever a handler sends while handling a request, a request or a
\* failure, carries the message id of that request.
C32_SameMessageId ==
    /\ \A request \in AnyRequest("Put"), put_fault \in BOOLEAN :
          CarryId(handle_put(Manager, request, put_fault), request) /\ CarryId(handle_put_failure(Manager, request), request)
    /\ \A request \in AnyRequest("Post"), order \in NameOrders :
          CarryId(handle_post(Manager, request, order), request)
    /\ \A request \in AnyRequest("Delete"), delete_fault \in BOOLEAN, overflow_checks \in BOOLEAN :
          CarryId(handle_delete(Manager, request, delete_fault, overflow_checks), request)

\* C32 witness: a put was turned down by the account's mailbox and the one
\* put failure went out.
C32_Witness ==
    /\ mpid.op = "handle_put" /\ mpid.res = "Ok" /\ mpid.sent = << "PutFailure" >>
    /\ \E a \in DOMAIN accounts : accounts[a].inbox.mail_box # {} \/ accounts[a].outbox.mail_box # {}

\* the total size of the chunks a store holds under the given names
RECURSIVE SizeOf(_, _)
SizeOf(store, names) ==
    IF names = {} THEN 0
    ELSE LET n == CHOOSE x \in names : TRUE
         IN  len(store[n]) + SizeOf(store, names \ { n })

\* a mailbox and its chunk store agree: the names recorded are stored, and
\* the space used is the size of their chunks
Agrees(box, store) == box.mail_box \subseteq DOMAIN store /\ box.used_space = SizeOf(store, box.mail_box)

\* C33 as stated: while the node is up, every mailbox agrees with its chunk
\* store, and every chunk of a store is recorded in the mailbox of some
\* account.
C33_MailboxMatchesStore ==
    mpid.res # "Panic" =>
        /\ \A a \in DOMAIN accounts : Agrees(accounts[a].inbox, chunk_store_inbox) /\ Agrees(accounts[a].outbox, chunk_store_outbox)
        /\ \A n \in DOMAIN chunk_store_inbox : \E a \in DOMAIN accounts : n \in accounts[a].inbox.mail_box
        /\ \A n \in DOMAIN chunk_store_outbox : \E a \in DOMAIN accounts : n \in accounts[a].outbox.mail_box

\* the space accounting of a mailbox is sound
Sound(box) == box.used_space + box.space_available = box.allowance /\ box.used_space <= box.allowance

\* C34 as stated: no delete ends in an arithmetic overflow, and in every
\* mailbox used_space + space_available = allowance, used_space <= allowance.
C34_SpaceAccounting ==
    /\ mpid.op = "handle_delete" => mpid.res # "Panic"
    /\ \A a \in DOMAIN accounts : Sound(accounts[a].inbox) /\ Sound(accounts[a].outbox)

AnyDelete == RequestsOf("Delete", Kind({ "DeleteMessage", "DeleteHeader" }))

\* the requester may delete what it names: a registered client of an account
\* whose mailbox records the name, or, for a message, its recipient
MayDelete(m, request) ==
    LET w == WrapperOf(request)
    IN  IF w.kind = "DeleteMessage"
        THEN /\ w.name \in DOMAIN m.chunk_store_outbox
             /\ \/ m.chunk_store_outbox[w.name][2].recipient = request.src.name
                \/ \E a \in DOMAIN m.accounts : w.name \in m.accounts[a].outbox.mail_box /\ Registered(m.accounts[a], request.src)
        ELSE /\ w.name \in DOMAIN m.chunk_store_inbox
             /\ \E a \in DOMAIN m.accounts : w.name \in m.accounts[a].inbox.mail_box /\ Registered(m.accounts[a], request.src)

\* C35 as stated: a delete from a requester that is neither a registered
\* client of the account whose mailbox holds the name nor (for a message)
\* its recipient leaves accounts and chunk stores as they were.
C35_OnlyOwnerOrRecipientDeletes ==
    \A request \in AnyDelete, delete_fault \in BOOLEAN, overflow_checks \in BOOLEAN :
        (Decodes(request) /\ ~MayDelete(Manager, request)) =>
            handle_delete(Manager, request, delete_fault, overflow_checks).m = Manager

\* the mailbox a put of this request goes to: the inbox (PutHeader) or the
\* outbox (PutMessage) of the account it is addressed to, a default account
\* where there is none yet
BoxFor(m, request) ==
    LET account == or_insert(m.accounts, request.dst.name)[request.dst.name]
    IN  IF WrapperOf(request).kind = "PutHeader" THEN account.inbox ELSE account.outbox
PutSize(request) ==
    LET w == WrapperOf(request)
    IN  IF w.kind = "PutHeader" THEN len(serialise("MpidHeader", w.header)) ELSE len(serialise("MpidMessage", w.message))
PutFailures(sent) == SelectSeq(sent, LAMBDA s : s.type = "PutFailure")
AllPutFailures == RequestsOf("Put", Kind({ "PutHeader" }))

\* the request comes from where the protocol has it come from: a PutMessage
\* from the sender's client to the sender's manager, a PutHeader from the
\* sender's manager
AsRouted(request) ==
    LET w == WrapperOf(request)
    IN  IF w.kind = "PutMessage"
        THEN request.src = Client(w.message.header.sender) /\ request.dst = ClientManager(w.message.header.sender)
        ELSE request.src = ClientManager(w.header.sender)

TurnedDown(handled, request) ==
    /\ handled.m.chunk_store_inbox = chunk_store_inbox
    /\ handled.m.chunk_store_outbox = chunk_store_outbox
    /\ BoxFor(handled.m, request) = BoxFor(Manager, request)
    /\ \A a \in DOMAIN accounts : handled.m.accounts[a] = accounts[a]
    /\ handled.sent = << [type |-> "PutFailure", src |-> request.dst, dst |-> request.src, request |-> request, external_error_indicator |-> << >>, id |-> request.content.id] >>

\* C37 as stated: whenever the serialised header or message is larger than
\* the space available in the mailbox, handle_put stores nothing, leaves the
\* mailbox as it was and sends one put failure to the source and nothing else.
C37_Original ==
    \A request \in AllPuts, put_fault \in BOOLEAN :
        (Decodes(request) /\ PutSize(request) > BoxFor(Manager, request).space_available) =>
            TurnedDown(handle_put(Manager, request, put_fault), request)

\* C37: when the store does not hold the name already and the serialised
\* header or message is larger than the space available in the mailbox,
\* handle_put stores nothing, leaves the mailbox and all existing accounts as
\* they were, returns Ok and sends one put failure to the request's source
\* and no notification.
C37_FullMailbox ==
    \A request \in AllPuts, put_fault \in BOOLEAN :
        (/\ Decodes(request)
         /\ request.content.data.name \notin DOMAIN StoreFor(Manager, WrapperOf(request))
         /\ PutSize(request) > BoxFor(Manager, request).space_available) =>
            LET handled == handle_put(Manager, request, put_fault)
            IN  handled.res = "Ok" /\ TurnedDown(handled, request)

\* C37 witness: a put was just answered with a put failure, and there is a
\* message, of a name that neither the store nor the mailbox has, that is too
\* large for the outbox it would go to.
C37_Witness ==
    /\ mpid.op = "handle_put" /\ mpid.sent = << "PutFailure" >>
    /\ \E request \in AllPuts :
          /\ Decodes(request) /\ WrapperOf(request).kind = "PutMessage"
          /\ request.content.data.name \notin DOMAIN chunk_store_outbox
          /\ request.content.data.name \notin BoxFor(Manager, request).mail_box
          /\ BoxFor(Manager, request).mail_box # {}
          /\ PutSize(request) > BoxFor(Manager, request).space_available

\* --------------------------------------------------- Map edit and delete claims

MapEdits == { w \in MapWrites : w.kind \in { "SetUserPermissions", "DelUserPermissions", "Edit" } }

\* the Map an edit makes of the stored one, or the error of the mutation
Mutated(map, w) ==
    CASE w.kind = "SetUserPermissions" -> Map_set_user_permissions(map, w.user, w.permissions, w.version)
      [] w.kind = "DelUserPermissions" -> Map_del_user_permissions(map, w.user, w.version)
      [] w.kind = "Edit" -> IF map.entries[w.key] = None THEN NdOk([map EXCEPT !.entries[w.key] = Some(1)])
                            ELSE NdErr("InvalidEntryActions")

\* C38: an edit (set or delete user permissions, edit entries) replaces the
\* chunk at its address by the mutated Map when the chunk is there, the
\* origin holds the permission, the mutation succeeds and the chunk store
\* does not fail; in every other case the chunk store is left exactly as it
\* was. Nothing is stored in between.
C38_EditAllOrNothing ==
    \A w \in MapEdits, msg_id \in MsgIds, origin \in Users, fault \in StoreFaults :
        LET after == write(chunks, w, msg_id, origin, fault = "get", fault = "put").chunks
        IN  IF /\ Occupied(w.address)
               /\ ~Lacks(Stored(w.address), NeededAction(w), origin)
               /\ Mutated(Stored(w.address), w).ok
               /\ fault = "none"
            THEN after = [chunks EXCEPT ![w.address] = Some(Mutated(Stored(w.address), w).val[1])]
            ELSE after = chunks

\* C38 witness: an edit has gone through (the write before this state had
\* nothing to report and the Map's permissions are at version 1), and the
\* Map as it is now gives a user other than the owner the permission to
\* read and no other, so that an edit by that user is refused.
C38_Witness ==
    /\ mresp = None
    /\ \E a \in MapAddresses, u \in Users :
          /\ Occupied(a) /\ Stored(a).version = 1
          /\ u # Stored(a).owner /\ Stored(a).permissions[u] = Some({ "Read" })
          /\ Lacks(Stored(a), "ManagePermissions", u)

MapDeletes == { w \in MapWrites : w.kind = "Delete" }

\* C39: a delete changes the chunk store only when the chunk is there and
\* the origin is its owner, and a delete by anyone else leaves the chunk in
\* place. After a delete by the owner that the chunk store carries out, the
\* address holds no chunk: every read there, by any origin, is answered
\* NoSuchData, and a create of any Map at the address then stores that Map
\* and has no error to report.
C39_DeleteByOwnerOnly ==
    \A w \in MapDeletes, msg_id \in MsgIds, origin \in Users, fault \in StoreFaults :
        LET deleted == write(chunks, w, msg_id, origin, fault = "get", fault = "put")
        IN  /\ deleted.chunks # chunks => Occupied(w.address) /\ origin = Stored(w.address).owner
            /\ (Occupied(w.address) /\ origin # Stored(w.address).owner) => deleted.chunks = chunks
            /\ (Occupied(w.address) /\ origin = Stored(w.address).owner /\ fault = "none") =>
                  /\ deleted.out = None
                  /\ deleted.chunks[w.address] = None
                  /\ \A r \in MapReads, reader \in Users, read_fault \in BOOLEAN :
                        r.address = w.address =>
                            read(deleted.chunks, r, msg_id, reader, read_fault)[1].result = NdErr("NoSuchData")
                  /\ \A data \in NewMaps, creator \in Users :
                        data.address = w.address =>
                            create(deleted.chunks, data, msg_id, creator, FALSE) =
                                [chunks |-> [deleted.chunks EXCEPT ![w.address] = Some(data)], out |-> None]

\* C39 witness: a Map is stored in which a user other than the owner holds
\* every permission, so that a delete by that user is refused and one by
\* the owner is carried out.
C39_Witness ==
    \E a \in MapAddresses, u \in Users :
        /\ Occupied(a) /\ u # Stored(a).owner
        /\ Stored(a).permissions[u] = Some(MapActions)
        /\ delete(chunks, a, 1, u, FALSE, FALSE).chunks = chunks
        /\ delete(chunks, a, 1, Stored(a).owner, FALSE, FALSE).chunks[a] = None

Next ==
    \/ \E p \in Prefixes, h \in Handles, t \in SignedTransfers :
          KeySection_process_propose(p, h, t)
    \/ \E p \in Prefixes, amount \in 1..MaxAmount, to \in Accounts :
          SectionFunds_initiate_reward_payout(p, amount, to)
    \/ \E p \in Prefixes, v \in Validations : SectionFunds_receive(p, v)
    \/ RoutingChurn
    \/ \E pks_ok, sks_ok, chain_ok, idx_ok, upd_ok \in BOOLEAN :
          KeySection_elders_changed(pks_ok, sks_ok, chain_ok, idx_ok, upd_ok)
    \/ SectionSplit
    \/ \E ok \in BOOLEAN : catchup_with_replicas(ok)

Spec == Init /\ [][Next]_vars

\* The Map storage on its own: client reads and writes, one at a time.
MapNext ==
    \/ \E r \in MapReads, msg_id \in MsgIds, origin \in Users, fault \in BOOLEAN :
          MapStorage_read(r, msg_id, origin, fault)
    \/ \E w \in MapWrites, msg_id \in MsgIds, origin \in Users, fault \in StoreFaults :
          MapStorage_write(w, msg_id, origin, fault = "get", fault = "put")

MapSpec == Init /\ [][MapNext]_vars

\* The dispatcher on its own: duties and envelopes, one at a time.
DispatchNext ==
    \/ \E duty \in KeySectionDuties, authorised \in BOOLEAN, handled \in Handled :
          KeySection_process(duty, authorised, handled)
    \/ \E msg \in MsgEnvelopes, handled \in Handled : AdultDuties_receive_msg(msg, handled)

DispatchSpec == Init /\ [][DispatchNext]_vars

\* MpidManager alone, on chunk stores that do not fail, in a build with
\* overflow checks: the requests the vault hands to the persona.
MpidNext ==
    \/ \E request \in PutRequests : MpidManager_handle_put(request, FALSE)
    \/ \E request \in PutFailureRequests : MpidManager_handle_put_failure(request)
    \/ \E request \in PostRequests, order \in NameOrders : MpidManager_handle_post(request, order)
    \/ \E request \in DeleteRequests : MpidManager_handle_delete(request, FALSE, TRUE)

MpidSpec == Init /\ [][MpidNext]_vars

\* The outboxes alone, with the messages of every sender: clients come
\* online, put and delete messages and ask what their outbox holds.
Short(wrappers) == { w \in wrappers : w.kind = "PutMessage" => w.message.body = 1 }
OutboxPuts == RequestsOf("Put", Short(Kind({ "PutMessage" })))
OutboxPosts == AtHome(RequestsOf("Post", Kind({ "Online", "OutboxHas", "GetOutboxHeaders" })))
OutboxDeletes == RequestsOf("Delete", Kind({ "DeleteMessage" }))

OutboxNext ==
    \/ \E request \in OutboxPuts : MpidManager_handle_put(request, FALSE)
    \/ \E request \in OutboxPosts, order \in NameOrders : MpidManager_handle_post(request, order)
    \/ \E request \in OutboxDeletes : MpidManager_handle_delete(request, FALSE, TRUE)

OutboxSpec == Init /\ [][OutboxNext]_vars

\* The mailboxes and the chunk stores: the header of one sender and its
\* messages of every body length are put and deleted, clients come online,
\* the chunk stores do not fail, and the build may or may not check overflow.
OneSender(wrappers) ==
    { w \in wrappers : /\ w.kind = "PutMessage" => w.message.header = OneHeader
                       /\ w.kind = "PutHeader" => w.header = OneHeader
                       /\ w.kind \in { "DeleteMessage", "DeleteHeader" } => w.name = MpidHeader_name(OneHeader) }
StorePuts == RequestsOf("Put", OneSender(Kind({ "PutHeader", "PutMessage" })))
StorePosts == AtHome(RequestsOf("Post", Kind({ "Online" })))
StoreDeletes == RequestsOf("Delete", OneSender(Kind({ "DeleteMessage", "DeleteHeader" })))

StoreNext ==
    \/ \E request \in StorePuts : MpidManager_handle_put(request, FALSE)
    \/ \E request \in StorePosts, order \in NameOrders : MpidManager_handle_post(request, order)
    \/ \E request \in StoreDeletes, overflow_checks \in BOOLEAN : MpidManager_handle_delete(request, FALSE, overflow_checks)

StoreSpec == Init /\ [][StoreNext]_vars

\* The validation of Elder e for transfer t, made under the index of the
\* Replica Info in use, reaches the Replica while t awaits e's validation.
Deliver(p, t, e) ==
    /\ Awaits(Elder, p, t)
    /\ \A s \in SlotOf(Elder, p, t).shares : s.elder # e
    /\ SectionFunds_receive(p, [transfer |-> t, elder |-> e,
                                index |-> Elder.info.our_index])

\* While transfers await validations, an outstanding validation is
\* eventually delivered.
FairSpec ==
    /\ Spec
    /\ WF_vars(\E p \in Prefixes, e \in Elders :
                  \E t \in { s \in SignedTransfers : s.sig /\ s.seq <= MaxSeq } :
                     Deliver(p, t, e))

====
